---- MODULE Spec2Model ----
(***************************************************************************)
(* Booking lifecycle of service-booking: the Booking aggregate and its     *)
(* status state machine, the optimistic-locking GORM repository, the       *)
(* BookingService use cases, and the payment event consumer.               *)
(*                                                                         *)
(* A service call is split at its interactions with shared state: the      *)
(* read (FindByID, followed by the in-memory aggregate operation and       *)
(* IncrementVersion), the conditional write (Update), and the publish.     *)
(* HTTP requests run on their own goroutines (Callers); the Kafka consumer *)
(* is one more goroutine handling one message at a time.                   *)
(***************************************************************************)
EXTENDS Integers, Sequences, FiniteSets, TLC

\* ---------------------------------------------------------------- bounds
MaxBookings == 2
MaxClock == 1

\* ------------------------------------------------------------ value sets
BookingIDs == 1..MaxBookings
BookingNumbers == 1..MaxBookings
Callers == {"c1", "c2"}
Consumer == "consumer"
Procs == Callers \cup {Consumer}
UuidNil == "00000000"
UserIDs == {"u1", "u2"}
Reasons == {"changed plans"}
\* the bookings the racing goroutines of Spec work on
RaceIDs == {1}
\* a nil pointer is the empty sequence, a set pointer a one-element sequence
Nil == << >>
Ptr(v) == << v >>

Min(a, b) == IF a < b THEN a ELSE b
\* time.Now(): the wall clock read at or after the last observed instant
Ticks(t) == t..Min(t + 1, MaxClock)

\* ------------------------------------------------ booking_status.go
StatusRequested == "requested"
StatusAccepted == "accepted"
StatusInProgress == "in_progress"
StatusDelivered == "delivered"
StatusCompleted == "completed"
StatusCancelled == "cancelled"

\* a table that lets a cancelled booking be accepted
validTransitionsCancelledReopens ==
    [s \in {StatusRequested, StatusAccepted, StatusInProgress, StatusDelivered,
            StatusCompleted, StatusCancelled} |->
        CASE s = StatusRequested -> {StatusAccepted, StatusCancelled}
          [] s = StatusAccepted -> {StatusInProgress, StatusCancelled}
          [] s = StatusInProgress -> {StatusDelivered, StatusCancelled}
          [] s = StatusDelivered -> {StatusCompleted}
          [] s = StatusCompleted -> {}
          [] s = StatusCancelled -> {StatusAccepted}]

\* a table that lets a completed booking be completed again
validTransitionsCompletedAgain ==
    [s \in {StatusRequested, StatusAccepted, StatusInProgress, StatusDelivered,
            StatusCompleted, StatusCancelled} |->
        CASE s = StatusRequested -> {StatusAccepted, StatusCancelled}
          [] s = StatusAccepted -> {StatusInProgress, StatusCancelled}
          [] s = StatusInProgress -> {StatusDelivered, StatusCancelled}
          [] s = StatusDelivered -> {StatusCompleted}
          [] s = StatusCompleted -> {StatusCompleted}
          [] s = StatusCancelled -> {}]

\* a table that also lets a delivered booking be cancelled
validTransitionsDeliveredCancellable ==
    [s \in {StatusRequested, StatusAccepted, StatusInProgress, StatusDelivered,
            StatusCompleted, StatusCancelled} |->
        CASE s = StatusRequested -> {StatusAccepted, StatusCancelled}
          [] s = StatusAccepted -> {StatusInProgress, StatusCancelled}
          [] s = StatusInProgress -> {StatusDelivered, StatusCancelled}
          [] s = StatusDelivered -> {StatusCompleted, StatusCancelled}
          [] s = StatusCompleted -> {}
          [] s = StatusCancelled -> {}]

validTransitions ==
    [s \in {StatusRequested, StatusAccepted, StatusInProgress, StatusDelivered,
            StatusCompleted, StatusCancelled} |->
        CASE s = StatusRequested -> {StatusAccepted, StatusCancelled}
          [] s = StatusAccepted -> {StatusInProgress, StatusCancelled}
          [] s = StatusInProgress -> {StatusDelivered, StatusCancelled}
          [] s = StatusDelivered -> {StatusCompleted}
          [] s = StatusCompleted -> {}
          [] s = StatusCancelled -> {}]

IsValid(s) == s \in DOMAIN validTransitions

CanTransitionTo(s, target) ==
    IF s \notin DOMAIN validTransitions THEN FALSE
    ELSE target \in validTransitions[s]

IsTerminal(s) ==
    IF s \notin DOMAIN validTransitions THEN TRUE
    ELSE validTransitions[s] = {}

\* cancellable whenever the status is not terminal
CanBeCancelledUnlessTerminal(s) == ~IsTerminal(s)

CanBeCancelled(s) == CanTransitionTo(s, StatusCancelled)

ParseBookingStatus(s) == IF IsValid(s) THEN [err |-> FALSE, status |-> s]
                         ELSE [err |-> TRUE, status |-> ""]

\* ------------------------------------------------------- errors (lib-common)
NoErr == [kind |-> "nil", cur |-> "", target |-> ""]
NewInvalidStateError(cur, target) ==
    [kind |-> "invalid_state", cur |-> cur, target |-> target]
NewValidationError == [kind |-> "validation", cur |-> "", target |-> ""]
NewNotFoundError == [kind |-> "not_found", cur |-> "", target |-> ""]
NewConflictError == [kind |-> "conflict", cur |-> "", target |-> ""]
NewForbiddenError == [kind |-> "forbidden", cur |-> "", target |-> ""]
WrappedError == [kind |-> "error", cur |-> "", target |-> ""]
Panic == [kind |-> "panic", cur |-> "", target |-> ""]

Ok(b) == [err |-> NoErr, bk |-> b]
Fail(e, b) == [err |-> e, bk |-> b]

\* ---------------------------------------------------- pet_specification.go
PetTypes == {"cat", "dog", "bird", "rabbit", "reptile", "other"}
PetTypeIsValid(p) == p \in PetTypes

\* a derivation whose steps exclude their upper ends
DetermineCrateRequirementBelow(spec) ==
    [minimumSize |->
        IF spec.weightKg < 50 THEN "small"
        ELSE IF spec.weightKg < 150 THEN "medium"
        ELSE IF spec.weightKg < 300 THEN "large"
        ELSE "xlarge",
     needsVentilation |-> TRUE,
     needsTempControl |-> (spec.petType = "reptile"),
     minimumWeightCapacity |-> spec.weightKg * 12]


\* weights are in tenths of a kilogram, the capacity (weight * 1.2) in hundredths
DetermineCrateRequirement(spec) ==
    [minimumSize |->
        IF spec.weightKg <= 50 THEN "small"
        ELSE IF spec.weightKg <= 150 THEN "medium"
        ELSE IF spec.weightKg <= 300 THEN "large"
        ELSE "xlarge",
     needsVentilation |-> TRUE,
     needsTempControl |-> (spec.petType = "reptile"),
     minimumWeightCapacity |-> spec.weightKg * 12]

\* ------------------------------------------------------------- pricing.go
petTypeSurcharge(petType) ==
    CASE petType = "dog" -> [err |-> FALSE, cents |-> 500]
      [] petType = "cat" -> [err |-> FALSE, cents |-> 300]
      [] petType = "bird" -> [err |-> FALSE, cents |-> 200]
      [] petType = "reptile" -> [err |-> FALSE, cents |-> 800]
      [] petType = "rabbit" -> [err |-> FALSE, cents |-> 300]
      [] petType = "other" -> [err |-> FALSE, cents |-> 500]
      [] OTHER -> [err |-> TRUE, cents |-> 0]

crateSizeSurcharge(size) ==
    CASE size = "small" -> 0
      [] size = "medium" -> 500
      [] size = "large" -> 1000
      [] size = "xlarge" -> 2000
      [] OTHER -> 0

\* a price whose distance part is rounded up
CalculateRoundingUp(distance, petType, crateSize) ==
    IF distance < 0 THEN [err |-> TRUE, cents |-> 0]
    ELSE LET pet == petTypeSurcharge(petType) IN
         IF pet.err THEN [err |-> TRUE, cents |-> 0]
         ELSE [err |-> FALSE,
               cents |-> 500 + ((distance * 250 + 99) \div 100) + pet.cents
                         + crateSizeSurcharge(crateSize)]


\* a price without the crate surcharge
CalculateWithoutCrateSurcharge(distance, petType, crateSize) ==
    IF distance < 0 THEN [err |-> TRUE, cents |-> 0]
    ELSE LET pet == petTypeSurcharge(petType) IN
         IF pet.err THEN [err |-> TRUE, cents |-> 0]
         ELSE [err |-> FALSE,
               cents |-> 500 + ((distance * 250) \div 100) + pet.cents]


\* distances are in hundredths of a kilometre; int64(d * 250) truncates
Calculate(distance, petType, crateSize) ==
    IF distance < 0 THEN [err |-> TRUE, cents |-> 0]
    ELSE LET pet == petTypeSurcharge(petType) IN
         IF pet.err THEN [err |-> TRUE, cents |-> 0]
         ELSE [err |-> FALSE,
               cents |-> 500 + ((distance * 250) \div 100) + pet.cents
                         + crateSizeSurcharge(crateSize)]

\* ------------------------------------------------------------- booking.go
\* a constructor that accepts an empty pet name
NewBookingWithoutNameCheck(id, number, ownerID, petSpec, crateReq, pickupAddress, dropoffAddress, estimatedPriceCents, currency, notes, t) ==
    IF ownerID = UuidNil THEN Fail(NewValidationError, Nil)
    ELSE IF ~PetTypeIsValid(petSpec.petType) THEN Fail(NewValidationError, Nil)
    ELSE IF petSpec.weightKg <= 0 THEN Fail(NewValidationError, Nil)
    ELSE IF pickupAddress.line1 = "" THEN Fail(NewValidationError, Nil)
    ELSE IF dropoffAddress.line1 = "" THEN Fail(NewValidationError, Nil)
    ELSE IF estimatedPriceCents <= 0 THEN Fail(NewValidationError, Nil)
    ELSE Ok([id |-> id,
             bookingNumber |-> number,
             ownerID |-> ownerID,
             runnerID |-> Nil,
             status |-> StatusRequested,
             petSpec |-> petSpec,
             crateReq |-> crateReq,
             pickupAddress |-> pickupAddress,
             dropoffAddress |-> dropoffAddress,
             estimatedPriceCents |-> estimatedPriceCents,
             finalPriceCents |-> Nil,
             currency |-> currency,
             pickedUpAt |-> Nil,
             deliveredAt |-> Nil,
             cancelledAt |-> Nil,
             cancelNote |-> "",
             notes |-> notes,
             version |-> 1,
             updatedAt |-> t])

NewBooking(id, number, ownerID, petSpec, crateReq, pickupAddress, dropoffAddress, estimatedPriceCents, currency, notes, t) ==
    IF ownerID = UuidNil THEN Fail(NewValidationError, Nil)
    ELSE IF petSpec.name = "" THEN Fail(NewValidationError, Nil)
    ELSE IF ~PetTypeIsValid(petSpec.petType) THEN Fail(NewValidationError, Nil)
    ELSE IF petSpec.weightKg <= 0 THEN Fail(NewValidationError, Nil)
    ELSE IF pickupAddress.line1 = "" THEN Fail(NewValidationError, Nil)
    ELSE IF dropoffAddress.line1 = "" THEN Fail(NewValidationError, Nil)
    ELSE IF estimatedPriceCents <= 0 THEN Fail(NewValidationError, Nil)
    ELSE Ok([id |-> id,
             bookingNumber |-> number,
             ownerID |-> ownerID,
             runnerID |-> Nil,
             status |-> StatusRequested,
             petSpec |-> petSpec,
             crateReq |-> crateReq,
             pickupAddress |-> pickupAddress,
             dropoffAddress |-> dropoffAddress,
             estimatedPriceCents |-> estimatedPriceCents,
             finalPriceCents |-> Nil,
             currency |-> currency,
             pickedUpAt |-> Nil,
             deliveredAt |-> Nil,
             cancelledAt |-> Nil,
             cancelNote |-> "",
             notes |-> notes,
             version |-> 1,
             updatedAt |-> t])

\* an acceptance that raises the version itself
AcceptBumpsVersion(b, runnerID, t) ==
    IF ~CanTransitionTo(b.status, StatusAccepted)
    THEN Fail(NewInvalidStateError(b.status, StatusAccepted), b)
    ELSE IF runnerID = UuidNil THEN Fail(NewValidationError, b)
    ELSE Ok([b EXCEPT !.runnerID = Ptr(runnerID),
                      !.status = StatusAccepted,
                      !.version = b.version + 1,
                      !.updatedAt = t])

\* an acceptance that looks at the runner before the status
AcceptRunnerCheckedFirst(b, runnerID, t) ==
    IF runnerID = UuidNil THEN Fail(NewValidationError, b)
    ELSE IF ~CanTransitionTo(b.status, StatusAccepted)
    THEN Fail(NewInvalidStateError(b.status, StatusAccepted), b)
    ELSE Ok([b EXCEPT !.runnerID = Ptr(runnerID),
                      !.status = StatusAccepted,
                      !.updatedAt = t])


Accept(b, runnerID, t) ==
    IF ~CanTransitionTo(b.status, StatusAccepted)
    THEN Fail(NewInvalidStateError(b.status, StatusAccepted), b)
    ELSE IF runnerID = UuidNil THEN Fail(NewValidationError, b)
    ELSE Ok([b EXCEPT !.runnerID = Ptr(runnerID),
                      !.status = StatusAccepted,
                      !.updatedAt = t])

\* a pickup that clears the runner
StartDeliveryClearsRunner(b, t) ==
    IF ~CanTransitionTo(b.status, StatusInProgress)
    THEN Fail(NewInvalidStateError(b.status, StatusInProgress), b)
    ELSE Ok([b EXCEPT !.status = StatusInProgress,
                      !.runnerID = Nil,
                      !.pickedUpAt = Ptr(t),
                      !.updatedAt = t])

StartDelivery(b, t) ==
    IF ~CanTransitionTo(b.status, StatusInProgress)
    THEN Fail(NewInvalidStateError(b.status, StatusInProgress), b)
    ELSE Ok([b EXCEPT !.status = StatusInProgress,
                      !.pickedUpAt = Ptr(t),
                      !.updatedAt = t])

\* a delivery confirmation that stamps the pickup time again
ConfirmDeliveryRestampsPickup(b, t) ==
    IF ~CanTransitionTo(b.status, StatusDelivered)
    THEN Fail(NewInvalidStateError(b.status, StatusDelivered), b)
    ELSE Ok([b EXCEPT !.status = StatusDelivered,
                      !.pickedUpAt = Ptr(t),
                      !.deliveredAt = Ptr(t),
                      !.updatedAt = t])

ConfirmDelivery(b, t) ==
    IF ~CanTransitionTo(b.status, StatusDelivered)
    THEN Fail(NewInvalidStateError(b.status, StatusDelivered), b)
    ELSE Ok([b EXCEPT !.status = StatusDelivered,
                      !.deliveredAt = Ptr(t),
                      !.updatedAt = t])

\* a completion that leaves the final price unset
CompleteWithoutFinalPrice(b, finalPriceCents, t) ==
    IF ~CanTransitionTo(b.status, StatusCompleted)
    THEN Fail(NewInvalidStateError(b.status, StatusCompleted), b)
    ELSE Ok([b EXCEPT !.status = StatusCompleted,
                      !.updatedAt = t])

Complete(b, finalPriceCents, t) ==
    IF ~CanTransitionTo(b.status, StatusCompleted)
    THEN Fail(NewInvalidStateError(b.status, StatusCompleted), b)
    ELSE Ok([b EXCEPT !.status = StatusCompleted,
                      !.finalPriceCents = Ptr(finalPriceCents),
                      !.updatedAt = t])

\* a cancellation that drops the reason
CancelWithoutReason(b, reason, t) ==
    IF ~CanBeCancelled(b.status)
    THEN Fail(NewInvalidStateError(b.status, StatusCancelled), b)
    ELSE Ok([b EXCEPT !.status = StatusCancelled,
                      !.cancelledAt = Ptr(t),
                      !.updatedAt = t])

Cancel(b, reason, t) ==
    IF ~CanBeCancelled(b.status)
    THEN Fail(NewInvalidStateError(b.status, StatusCancelled), b)
    ELSE Ok([b EXCEPT !.status = StatusCancelled,
                      !.cancelNote = reason,
                      !.cancelledAt = Ptr(t),
                      !.updatedAt = t])

IncrementVersion(b, t) ==
    [b EXCEPT !.version = b.version + 1, !.updatedAt = t]

\* ------------------------------------------------ variables
VARIABLES
    store,      \* the bookings table: booking id -> row
    now,        \* the latest instant time.Now() has returned
    pc,         \* per goroutine: "idle", "update" (snapshot built), "publish" (committed)
    call,       \* per goroutine: the service call in progress
    bk,         \* per goroutine: the in-memory aggregate of the call in progress
    updates,    \* per goroutine: repo.Update invocations made by the call in progress
    msg,        \* the Kafka message the consumer is handling
    out,        \* what the step just taken returned to its caller, if it returned
    emitted,    \* per booking id: the events handed to publishEvent, in order
    quote       \* the inputs and results of a pricing and crate calculation

vars == <<store, now, pc, call, bk, updates, msg, out, emitted, quote>>

\* from: the status FindByID returned to the call
NoCall == [op |-> "", id |-> 0, actor |-> UuidNil, reason |-> "", from |-> ""]
NoMsg == [envelopeOK |-> FALSE, type |-> "", dataOK |-> FALSE, bookingID |-> 0]
\* no return in this step
NoOut == [p |-> "", call |-> NoCall, err |-> NoErr, version |-> 0, updates |-> 0,
          published |-> "", msg |-> NoMsg, handled |-> ""]

\* ------------------------------------------- booking_repository.go
\* a JSON object maps its keys to their values; a key that is absent leaves the
\* decoded field at its zero value
JSONField(obj, key, zero) ==
    IF key \in DOMAIN obj THEN obj[key] ELSE zero

\* json.Marshal(bk.PetSpec()) and json.Unmarshal(m.PetSpec, &petSpec)
MarshalPetSpec(ps) ==
    [pet_type |-> ps.petType, name |-> ps.name, weight_kg |-> ps.weightKg]
UnmarshalPetSpec(obj) ==
    [petType |-> JSONField(obj, "pet_type", ""),
     name |-> JSONField(obj, "name", ""),
     weightKg |-> JSONField(obj, "weight_kg", 0)]

\* json.Marshal(bk.PickupAddress()) and json.Unmarshal(m.PickupAddress, &pickupAddress),
\* and the same for the dropoff address
MarshalAddress(a) ==
    [line1 |-> a.line1, latitude |-> a.latitude, longitude |-> a.longitude]
UnmarshalAddress(obj) ==
    [line1 |-> JSONField(obj, "line1", ""),
     latitude |-> JSONField(obj, "latitude", 0),
     longitude |-> JSONField(obj, "longitude", 0)]

\* json.Marshal(bk.CrateReq()) and json.Unmarshal(m.CrateRequirement, &crateReq)
MarshalCrateReq(cr) ==
    [minimum_size |-> cr.minimumSize,
     needs_ventilation |-> cr.needsVentilation,
     needs_temp_control |-> cr.needsTempControl,
     minimum_weight_capacity |-> cr.minimumWeightCapacity]
\* a decoder that looks for the crate size under another key
UnmarshalCrateReqOtherKey(obj) ==
    [minimumSize |-> JSONField(obj, "min_size", ""),
     needsVentilation |-> JSONField(obj, "needs_ventilation", FALSE),
     needsTempControl |-> JSONField(obj, "needs_temp_control", FALSE),
     minimumWeightCapacity |-> JSONField(obj, "minimum_weight_capacity", 0)]

UnmarshalCrateReq(obj) ==
    [minimumSize |-> JSONField(obj, "minimum_size", ""),
     needsVentilation |-> JSONField(obj, "needs_ventilation", FALSE),
     needsTempControl |-> JSONField(obj, "needs_temp_control", FALSE),
     minimumWeightCapacity |-> JSONField(obj, "minimum_weight_capacity", 0)]

toBookingModel(b) ==
    [id |-> b.id,
     bookingNumber |-> b.bookingNumber,
     ownerID |-> b.ownerID,
     runnerID |-> b.runnerID,
     status |-> b.status,
     petSpec |-> MarshalPetSpec(b.petSpec),
     crateReq |-> MarshalCrateReq(b.crateReq),
     pickupAddress |-> MarshalAddress(b.pickupAddress),
     dropoffAddress |-> MarshalAddress(b.dropoffAddress),
     estimatedPriceCents |-> b.estimatedPriceCents,
     finalPriceCents |-> b.finalPriceCents,
     currency |-> b.currency,
     pickedUpAt |-> b.pickedUpAt,
     deliveredAt |-> b.deliveredAt,
     cancelledAt |-> b.cancelledAt,
     cancelNote |-> b.cancelNote,
     notes |-> b.notes,
     version |-> b.version,
     updatedAt |-> b.updatedAt]

toDomainBooking(m) ==
    LET parsed == ParseBookingStatus(m.status) IN
    IF parsed.err THEN Fail(WrappedError, Nil)
    ELSE Ok([id |-> m.id,
             bookingNumber |-> m.bookingNumber,
             ownerID |-> m.ownerID,
             runnerID |-> m.runnerID,
             status |-> parsed.status,
             petSpec |-> UnmarshalPetSpec(m.petSpec),
             crateReq |-> UnmarshalCrateReq(m.crateReq),
             pickupAddress |-> UnmarshalAddress(m.pickupAddress),
             dropoffAddress |-> UnmarshalAddress(m.dropoffAddress),
             estimatedPriceCents |-> m.estimatedPriceCents,
             finalPriceCents |-> m.finalPriceCents,
             currency |-> m.currency,
             pickedUpAt |-> m.pickedUpAt,
             deliveredAt |-> m.deliveredAt,
             cancelledAt |-> m.cancelledAt,
             cancelNote |-> m.cancelNote,
             notes |-> m.notes,
             version |-> m.version,
             updatedAt |-> m.updatedAt])

FindByID(st, id) ==
    IF id \notin DOMAIN st THEN Fail(NewNotFoundError, Nil)
    ELSE toDomainBooking(st[id])

\* a table without the unique index on booking_number
SaveWithoutNumberIndex(st, b) ==
    LET model == toBookingModel(b) IN
    IF model.id \in DOMAIN st
    THEN [err |-> WrappedError, store |-> st]
    ELSE [err |-> NoErr, store |-> (model.id :> model) @@ st]

\* Create: the primary key and the unique index on booking_number reject duplicates
Save(st, b) ==
    LET model == toBookingModel(b) IN
    IF \/ model.id \in DOMAIN st
       \/ \E i \in DOMAIN st : st[i].bookingNumber = model.bookingNumber
    THEN [err |-> WrappedError, store |-> st]
    ELSE [err |-> NoErr, store |-> (model.id :> model) @@ st]

\* an UPDATE whose WHERE clause leaves out the version
UpdateWithoutVersionCheck(st, b) ==
    LET model == toBookingModel(b) IN
    IF model.id \notin DOMAIN st
    THEN [err |-> NewConflictError, store |-> st]
    ELSE [err |-> NoErr, store |-> [st EXCEPT ![model.id] = model]]

\* an UPDATE that leaves the version column out of the SET list
UpdateWithoutVersionColumn(st, b) ==
    LET model == toBookingModel(b) IN
    IF model.id \in DOMAIN st /\ st[model.id].version = b.version - 1
    THEN [err |-> NoErr,
          store |-> [st EXCEPT ![model.id] = [model EXCEPT !.version = b.version - 1]]]
    ELSE [err |-> NewConflictError, store |-> st]

\* an UPDATE that reports a missing row as not found
UpdateNotFoundWhenAbsent(st, b) ==
    LET model == toBookingModel(b) IN
    IF model.id \notin DOMAIN st
    THEN [err |-> NewNotFoundError, store |-> st]
    ELSE IF st[model.id].version = b.version - 1
    THEN [err |-> NoErr, store |-> [st EXCEPT ![model.id] = model]]
    ELSE [err |-> NewConflictError, store |-> st]

\* UPDATE bookings SET ... WHERE id = ? AND version = ?; zero rows affected is a conflict
Update(st, b) ==
    LET model == toBookingModel(b)
        expectedVersion == b.version - 1
        rowsAffected ==
            IF model.id \in DOMAIN st /\ st[model.id].version = expectedVersion
            THEN 1 ELSE 0
    IN IF rowsAffected = 0
       THEN [err |-> NewConflictError, store |-> st]
       ELSE [err |-> NoErr,
             store |-> [st EXCEPT ![model.id] =
                 [@ EXCEPT !.runnerID = model.runnerID,
                           !.status = model.status,
                           !.petSpec = model.petSpec,
                           !.crateReq = model.crateReq,
                           !.pickupAddress = model.pickupAddress,
                           !.dropoffAddress = model.dropoffAddress,
                           !.estimatedPriceCents = model.estimatedPriceCents,
                           !.finalPriceCents = model.finalPriceCents,
                           !.currency = model.currency,
                           !.pickedUpAt = model.pickedUpAt,
                           !.deliveredAt = model.deliveredAt,
                           !.cancelledAt = model.cancelledAt,
                           !.cancelNote = model.cancelNote,
                           !.notes = model.notes,
                           !.version = model.version,
                           !.updatedAt = model.updatedAt]]]

\* ------------------------------------------------- booking_service.go
CurrencyMYR == "MYR"
BookingRequested == "booking.requested"
BookingAccepted == "booking.accepted"
BookingPetPickedUp == "booking.pet_picked_up"
BookingDeliveryConfirmed == "booking.delivery_confirmed"
BookingCompleted == "booking.completed"
BookingCancelled == "booking.cancelled"
PaymentEscrowReleased == "payment.escrow_released"

\* creation requests; the addresses lie on the equator, their longitudes given in
\* hundredths of a kilometre of arc: the dog travels 10 km, the cat does not move
DogRequest == [petType |-> "dog", name |-> "Rex", weightKg |-> 100,
               pickupLine1 |-> "1 Jalan A", dropoffLine1 |-> "2 Jalan B",
               pickupLongitude |-> 0, dropoffLongitude |-> 1000,
               notes |-> "ring the bell"]
CatRequest == [petType |-> "cat", name |-> "Tom", weightKg |-> 40,
               pickupLine1 |-> "1 Jalan A", dropoffLine1 |-> "2 Jalan B",
               pickupLongitude |-> 300, dropoffLongitude |-> 300,
               notes |-> ""]
\* what a caller may submit: the authenticated user and the request body
CreateInputs ==
    { <<"u1", DogRequest>>,
      <<"u2", CatRequest>>,
      <<UuidNil, DogRequest>>,
      <<"u1", [DogRequest EXCEPT !.petType = "fish"]>>,
      <<"u1", [DogRequest EXCEPT !.name = ""]>>,
      <<"u1", [DogRequest EXCEPT !.weightKg = 0]>>,
      <<"u1", [DogRequest EXCEPT !.pickupLine1 = ""]>>,
      <<"u1", [DogRequest EXCEPT !.dropoffLine1 = ""]>> }

buildPetSpecification(req) ==
    [petType |-> req.petType, name |-> req.name, weightKg |-> req.weightKg]

\* req.PickupAddress and req.DropoffAddress
PickupAddress(req) ==
    [line1 |-> req.pickupLine1, latitude |-> 0, longitude |-> req.pickupLongitude]
DropoffAddress(req) ==
    [line1 |-> req.dropoffLine1, latitude |-> 0, longitude |-> req.dropoffLongitude]

\* the great-circle distance; between two points of the equator it is the arc
\* between their longitudes, in either direction
haversineDistance(lat1, lng1, lat2, lng2) ==
    IF lng2 >= lng1 THEN lng2 - lng1 ELSE lng1 - lng2

\* an event that leaves the booking number out
EventWithoutNumber(type, b) ==
    [type |-> type, bookingID |-> b.id, bookingNumber |-> 0,
     ownerID |-> UuidNil, runnerID |-> UuidNil, cancelledBy |-> UuidNil,
     reason |-> "", price |-> Nil, currency |-> "",
     pickedUpAt |-> Nil, deliveredAt |-> Nil, version |-> b.version]


Event(type, b) ==
    [type |-> type, bookingID |-> b.id, bookingNumber |-> b.bookingNumber,
     ownerID |-> UuidNil, runnerID |-> UuidNil, cancelledBy |-> UuidNil,
     reason |-> "", price |-> Nil, currency |-> "",
     pickedUpAt |-> Nil, deliveredAt |-> Nil, version |-> b.version]

\* the event each use case builds after its commit; a nil dereference panics
BuildEvent(c, b) ==
    CASE c.op = "create" ->
           Ok([Event(BookingRequested, b) EXCEPT
                  !.ownerID = b.ownerID,
                  !.price = Ptr(b.estimatedPriceCents),
                  !.currency = b.currency])
      [] c.op = "accept" ->
           Ok([Event(BookingAccepted, b) EXCEPT
                  !.runnerID = c.actor, !.ownerID = b.ownerID])
      [] c.op = "start" ->
           IF b.runnerID = Nil \/ b.pickedUpAt = Nil THEN Fail(Panic, Nil)
           ELSE Ok([Event(BookingPetPickedUp, b) EXCEPT
                  !.runnerID = b.runnerID[1], !.ownerID = b.ownerID,
                  !.pickedUpAt = b.pickedUpAt])
      [] c.op = "deliver" ->
           IF b.runnerID = Nil \/ b.deliveredAt = Nil THEN Fail(Panic, Nil)
           ELSE Ok([Event(BookingDeliveryConfirmed, b) EXCEPT
                  !.runnerID = b.runnerID[1], !.ownerID = b.ownerID,
                  !.deliveredAt = b.deliveredAt])
      [] c.op = "complete" ->
           Ok([Event(BookingCompleted, b) EXCEPT
                  !.runnerID = IF b.runnerID # Nil THEN b.runnerID[1] ELSE UuidNil,
                  !.ownerID = b.ownerID,
                  !.price = Ptr(b.estimatedPriceCents),
                  !.currency = b.currency])
      [] c.op = "cancel" ->
           Ok([Event(BookingCancelled, b) EXCEPT
                  !.cancelledBy = c.actor, !.reason = c.reason])

\* a service call returns to its caller: an HTTP handler, or handleEscrowReleased
\* (handling message m), which returns the error of CompleteBooking unchanged
Return(p, c, m, e, v, n, published) ==
    /\ pc' = [pc EXCEPT ![p] = "idle"]
    /\ call' = [call EXCEPT ![p] = NoCall]
    /\ bk' = [bk EXCEPT ![p] = Nil]
    /\ updates' = [updates EXCEPT ![p] = 0]
    /\ msg' = IF p = Consumer THEN NoMsg ELSE msg
    /\ out' = [p |-> p, call |-> c, err |-> e, version |-> v, updates |-> n,
               published |-> published, msg |-> m,
               handled |-> IF p # Consumer THEN ""
                           ELSE IF e # NoErr THEN "err" ELSE "nil"]

\* a cancellation that only the owner may ask for
ApplyCancelByOwnerOnly(c, b, t) ==
    CASE c.op = "accept" -> Accept(b, c.actor, t)
      [] c.op = "start" -> StartDelivery(b, t)
      [] c.op = "deliver" -> ConfirmDelivery(b, t)
      [] c.op = "complete" -> Complete(b, b.estimatedPriceCents, t)
      [] c.op = "cancel" -> IF c.actor # b.ownerID THEN Fail(NewForbiddenError, b)
                            ELSE Cancel(b, c.reason, t)

\* the aggregate operation each use case calls on the booking it has read
Apply(c, b, t) ==
    CASE c.op = "accept" -> Accept(b, c.actor, t)
      [] c.op = "start" -> StartDelivery(b, t)
      [] c.op = "deliver" -> ConfirmDelivery(b, t)
      [] c.op = "complete" -> Complete(b, b.estimatedPriceCents, t)
      [] c.op = "cancel" -> Cancel(b, c.reason, t)

\* FindByID, the aggregate operation, IncrementVersion
Load(p, c, m) ==
    /\ pc[p] = "idle"
    /\ UNCHANGED <<store, emitted>>
    /\ LET found == FindByID(store, c.id) IN
       IF found.err # NoErr
       THEN Return(p, c, m, found.err, 0, 0, "") /\ now' = now
       ELSE IF Apply(c, found.bk, now).err # NoErr
       THEN /\ Return(p, [c EXCEPT !.from = found.bk.status], m,
                      Apply(c, found.bk, now).err, 0, 0, "")
            /\ now' = now
       ELSE \E t1 \in Ticks(now) : \E t2 \in Ticks(t1) :
              /\ now' = t2
              /\ pc' = [pc EXCEPT ![p] = "update"]
              /\ call' = [call EXCEPT ![p] = [c EXCEPT !.from = found.bk.status]]
              /\ bk' = [bk EXCEPT ![p] = IncrementVersion(Apply(c, found.bk, t1).bk, t2)]
              /\ msg' = IF p = Consumer THEN m ELSE msg
              /\ out' = NoOut
              /\ UNCHANGED updates

\* a commit that, on a conflict, rebases the snapshot on the stored version and
\* tries again
CommitWithRetry(p, o) ==
    /\ pc[p] = "update"
    /\ call[p].op = o
    /\ LET u == Update(store, bk[p]) IN
       /\ store' = u.store
       /\ updates' = [updates EXCEPT ![p] = updates[p] + 1]
       /\ out' = NoOut
       /\ IF u.err # NoErr
          THEN /\ bk' = [bk EXCEPT ![p] =
                            [bk[p] EXCEPT !.version = store[bk[p].id].version + 1]]
               /\ UNCHANGED <<pc, call, msg>>
          ELSE /\ pc' = [pc EXCEPT ![p] = "publish"]
               /\ UNCHANGED <<call, bk, msg>>
    /\ UNCHANGED <<now, emitted>>

\* s.repo.Update(ctx, bk); a failure is returned to the caller
Commit(p, o) ==
    /\ pc[p] = "update"
    /\ call[p].op = o
    /\ LET u == Update(store, bk[p]) IN
       /\ store' = u.store
       /\ IF u.err # NoErr
          THEN Return(p, call[p], msg, u.err, bk[p].version, updates[p] + 1, "")
          ELSE /\ pc' = [pc EXCEPT ![p] = "publish"]
               /\ updates' = [updates EXCEPT ![p] = updates[p] + 1]
               /\ out' = NoOut
               /\ UNCHANGED <<call, bk, msg>>
    /\ UNCHANGED <<now, emitted>>

\* a publisher that hands the event to the producer twice
publishEventTwice(evt, delivered) ==
    emitted' = [emitted EXCEPT ![evt.bookingID] = Append(Append(@, evt), evt)]

\* publishEvent: the producer may fail; the failure is logged and dropped
publishEvent(evt, delivered) ==
    emitted' = [emitted EXCEPT ![evt.bookingID] = Append(@, evt)]

\* a publication whose failure is returned to the caller
PublishFailureSurfaced(p, o) ==
    /\ pc[p] = "publish"
    /\ call[p].op = o
    /\ LET built == BuildEvent(call[p], bk[p]) IN
       IF built.err # NoErr
       THEN /\ Return(p, call[p], msg, built.err, bk[p].version, updates[p], "")
            /\ UNCHANGED emitted
       ELSE \E delivered \in BOOLEAN :
            /\ publishEvent(built.bk, delivered)
            /\ Return(p, call[p], msg, IF delivered THEN NoErr ELSE WrappedError,
                      bk[p].version, updates[p],
                      IF delivered THEN "delivered" ELSE "failed")
    /\ UNCHANGED <<store, now>>

Publish(p, o) ==
    /\ pc[p] = "publish"
    /\ call[p].op = o
    /\ LET built == BuildEvent(call[p], bk[p]) IN
       IF built.err # NoErr
       THEN /\ Return(p, call[p], msg, built.err, bk[p].version, updates[p], "")
            /\ UNCHANGED emitted
       ELSE \E delivered \in BOOLEAN :
            /\ publishEvent(built.bk, delivered)
            /\ Return(p, call[p], msg, NoErr, bk[p].version, updates[p],
                      IF delivered THEN "delivered" ELSE "failed")
    /\ UNCHANGED <<store, now>>

CreateCall(ownerID, id) == [op |-> "create", id |-> id, actor |-> ownerID, reason |-> "", from |-> ""]

\* id and number are what uuid.New() and generateBookingNumber() return
CreateBooking(p, id, number, ownerID, req) ==
    /\ pc[p] = "idle"
    /\ UNCHANGED emitted
    /\ LET petSpec == buildPetSpecification(req)
           crateReq == DetermineCrateRequirement(petSpec)
           pickup == PickupAddress(req)
           dropoff == DropoffAddress(req)
           distanceKm == haversineDistance(pickup.latitude, pickup.longitude,
                                           dropoff.latitude, dropoff.longitude)
           price == Calculate(distanceKm, req.petType, crateReq.minimumSize)
       IN
       IF price.err
       THEN /\ Return(p, CreateCall(ownerID, 0), NoMsg, NewValidationError, 0, 0, "")
            /\ UNCHANGED <<store, now>>
       ELSE IF NewBooking(id, number, ownerID, petSpec, crateReq, pickup, dropoff,
                          price.cents, CurrencyMYR, req.notes, now).err # NoErr
       THEN /\ Return(p, CreateCall(ownerID, 0), NoMsg, NewValidationError, 0, 0, "")
            /\ UNCHANGED <<store, now>>
       ELSE \E t \in Ticks(now) :
            LET made == NewBooking(id, number, ownerID, petSpec, crateReq,
                                   pickup, dropoff,
                                   price.cents, CurrencyMYR, req.notes, t)
                saved == Save(store, made.bk)
            IN
            /\ now' = t
            /\ store' = saved.store
            /\ IF saved.err # NoErr
               THEN Return(p, CreateCall(ownerID, id), NoMsg, WrappedError, 0, 0, "")
               ELSE /\ pc' = [pc EXCEPT ![p] = "publish"]
                    /\ call' = [call EXCEPT ![p] = CreateCall(ownerID, id)]
                    /\ bk' = [bk EXCEPT ![p] = made.bk]
                    /\ out' = NoOut
                    /\ UNCHANGED <<updates, msg>>

CreateBookingPublish(p) == Publish(p, "create")

AcceptBooking(p, bookingID, runnerID) ==
    Load(p, [op |-> "accept", id |-> bookingID, actor |-> runnerID, reason |-> "", from |-> ""],
         NoMsg)
AcceptBookingUpdate(p) == Commit(p, "accept")
AcceptBookingPublish(p) == Publish(p, "accept")

StartDeliveryCall(p, bookingID) ==
    Load(p, [op |-> "start", id |-> bookingID, actor |-> UuidNil, reason |-> "", from |-> ""],
         NoMsg)
StartDeliveryUpdate(p) == Commit(p, "start")
StartDeliveryPublish(p) == Publish(p, "start")

ConfirmDeliveryCall(p, bookingID) ==
    Load(p, [op |-> "deliver", id |-> bookingID, actor |-> UuidNil, reason |-> "", from |-> ""],
         NoMsg)
ConfirmDeliveryUpdate(p) == Commit(p, "deliver")
ConfirmDeliveryPublish(p) == Publish(p, "deliver")

\* finalPrice := bk.EstimatedPriceCents(); bk.Complete(finalPrice)
CompleteBooking(p, bookingID, m) ==
    Load(p, [op |-> "complete", id |-> bookingID, actor |-> UuidNil, reason |-> "", from |-> ""],
         m)
CompleteBookingUpdate(p) == Commit(p, "complete")
CompleteBookingPublish(p) == Publish(p, "complete")

CancelBooking(p, bookingID, cancelledBy, reason) ==
    Load(p, [op |-> "cancel", id |-> bookingID, actor |-> cancelledBy,
             reason |-> reason, from |-> ""], NoMsg)
CancelBookingUpdate(p) == Commit(p, "cancel")
CancelBookingPublish(p) == Publish(p, "cancel")

\* the CreateBookingRequest that RebookBooking fills from the original booking
RebookRequest(original) ==
    [petType |-> original.petSpec.petType,
     name |-> original.petSpec.name,
     weightKg |-> original.petSpec.weightKg,
     pickupLine1 |-> original.pickupAddress.line1,
     dropoffLine1 |-> original.dropoffAddress.line1,
     pickupLongitude |-> original.pickupAddress.longitude,
     dropoffLongitude |-> original.dropoffAddress.longitude,
     notes |-> original.notes]

RebookCall(ownerID, originalBookingID) ==
    [op |-> "rebook", id |-> originalBookingID, actor |-> ownerID, reason |-> "", from |-> ""]

\* a rebooking that any user may ask for
RebookBookingByAnyone(p, id, number, ownerID, originalBookingID) ==
    /\ pc[p] = "idle"
    /\ LET found == FindByID(store, originalBookingID) IN
       IF found.err # NoErr
       THEN /\ Return(p, RebookCall(ownerID, originalBookingID), NoMsg, found.err, 0, 0, "")
            /\ UNCHANGED <<store, now, emitted>>
       ELSE CreateBooking(p, id, number, ownerID, RebookRequest(found.bk))

\* FindByID, the ownership check, then CreateBooking with the copied request;
\* id and number are what uuid.New() and generateBookingNumber() return
RebookBooking(p, id, number, ownerID, originalBookingID) ==
    /\ pc[p] = "idle"
    /\ LET found == FindByID(store, originalBookingID) IN
       IF found.err # NoErr
       THEN /\ Return(p, RebookCall(ownerID, originalBookingID), NoMsg, found.err, 0, 0, "")
            /\ UNCHANGED <<store, now, emitted>>
       ELSE IF found.bk.ownerID # ownerID
       THEN /\ Return(p, RebookCall(ownerID, originalBookingID), NoMsg,
                      NewForbiddenError, 0, 0, "")
            /\ UNCHANGED <<store, now, emitted>>
       ELSE CreateBooking(p, id, number, ownerID, RebookRequest(found.bk))


\* ------------------------------------------------- booking_handler.go
\* POST /:id/confirm: the owner confirms the delivery
ConfirmDeliveryByOwner(p, bookingID) == CompleteBooking(p, bookingID, NoMsg)

\* ------------------------------------------- payment event consumer
Messages(ids) ==
    { [envelopeOK |-> FALSE, type |-> "", dataOK |-> FALSE, bookingID |-> 0],
      [envelopeOK |-> TRUE, type |-> "payment.escrow_held", dataOK |-> TRUE,
       bookingID |-> 0],
      [envelopeOK |-> TRUE, type |-> PaymentEscrowReleased, dataOK |-> FALSE,
       bookingID |-> 0] }
    \cup { [envelopeOK |-> TRUE, type |-> PaymentEscrowReleased, dataOK |-> TRUE,
            bookingID |-> b] : b \in ids }

\* the handler returns nil without calling the service
Dropped(m) ==
    /\ out' = [NoOut EXCEPT !.p = Consumer, !.msg = m, !.handled = "nil"]
    /\ UNCHANGED <<store, now, pc, call, bk, updates, msg, emitted>>

\* a handler that asks for the completion whatever the data parsed to
handleEscrowReleasedUnparsed(m) ==
    CompleteBooking(Consumer, m.bookingID, m)

handleEscrowReleased(m) ==
    IF ~m.dataOK THEN Dropped(m)
    ELSE CompleteBooking(Consumer, m.bookingID, m)

\* a dispatcher that treats every parsed envelope as an escrow release
handleMessageAnyType(m) ==
    /\ pc[Consumer] = "idle"
    /\ IF ~m.envelopeOK THEN Dropped(m)
       ELSE handleEscrowReleased(m)

handleMessage(m) ==
    /\ pc[Consumer] = "idle"
    /\ IF ~m.envelopeOK THEN Dropped(m)
       ELSE IF m.type = PaymentEscrowReleased THEN handleEscrowReleased(m)
       ELSE Dropped(m)

\* ------------------------------------------------------ specification
\* nothing stored, nothing in progress
Idle ==
    /\ store = << >>
    /\ now = 0
    /\ pc = [p \in Procs |-> "idle"]
    /\ call = [p \in Procs |-> NoCall]
    /\ bk = [p \in Procs |-> Nil]
    /\ updates = [p \in Procs |-> 0]
    /\ msg = NoMsg
    /\ out = NoOut
    /\ emitted = [b \in BookingIDs |-> << >>]

NoQuote == [distance |-> 0, petType |-> "", crateSize |-> "", weightKg |-> 0,
            price |-> Nil, again |-> Nil, crate |-> Nil]

Init == Idle /\ quote = NoQuote

\* the record of a return is cleared before the next step is taken
Respond ==
    /\ out # NoOut
    /\ out' = NoOut
    /\ UNCHANGED <<store, now, pc, call, bk, updates, msg, emitted, quote>>

\* the steps of the HTTP goroutines cs and of the consumer, on the bookings ids
\* with the booking numbers nums
Step(cs, ids, nums) ==
  /\ UNCHANGED quote
  /\
    \/ \E p \in cs, id \in ids, number \in nums, in \in CreateInputs :
          CreateBooking(p, id, number, in[1], in[2])
    \/ \E p \in cs : CreateBookingPublish(p)
    \/ \E p \in cs, b \in ids, r \in UserIDs \cup {UuidNil} : AcceptBooking(p, b, r)
    \/ \E p \in cs : AcceptBookingUpdate(p)
    \/ \E p \in cs : AcceptBookingPublish(p)
    \/ \E p \in cs, b \in ids : StartDeliveryCall(p, b)
    \/ \E p \in cs : StartDeliveryUpdate(p)
    \/ \E p \in cs : StartDeliveryPublish(p)
    \/ \E p \in cs, b \in ids : ConfirmDeliveryCall(p, b)
    \/ \E p \in cs : ConfirmDeliveryUpdate(p)
    \/ \E p \in cs : ConfirmDeliveryPublish(p)
    \/ \E p \in cs, b \in ids : ConfirmDeliveryByOwner(p, b)
    \/ \E p \in cs \cup {Consumer} : CompleteBookingUpdate(p)
    \/ \E p \in cs \cup {Consumer} : CompleteBookingPublish(p)
    \/ \E p \in cs, b \in ids, u \in UserIDs, r \in Reasons : CancelBooking(p, b, u, r)
    \/ \E p \in cs : CancelBookingUpdate(p)
    \/ \E p \in cs : CancelBookingPublish(p)
    \/ \E m \in Messages(ids) : handleMessage(m)

\* concurrent callers racing on one booking
Next ==
    \/ out = NoOut /\ Step(Callers, RaceIDs, RaceIDs)
    \/ Respond
Spec == Init /\ [][Next]_vars

\* several bookings, one call at a time: an HTTP request or a message
NextMany ==
    \/ /\ out = NoOut
       /\ Step({"c1"}, BookingIDs, BookingNumbers)
       /\ Cardinality({p \in Procs : pc'[p] # "idle"}) <= 1
    \/ Respond
SpecMany == Init /\ [][NextMany]_vars

\* one HTTP caller and the payment consumer on one booking; a goroutine that has
\* begun a call keeps running: its update and its publication are taken whenever
\* they stay possible, and a returned result is consumed
Continue(p) ==
    /\ out = NoOut
    /\ \E o \in {"create", "accept", "start", "deliver", "complete", "cancel"} :
          \/ Commit(p, o)
          \/ (o # "create" /\ Publish(p, o))
    /\ UNCHANGED quote
NextFair ==
    \/ out = NoOut /\ Step({"c1"}, RaceIDs, RaceIDs)
    \/ Respond
SpecFair ==
    /\ Init
    /\ [][NextFair]_vars
    /\ \A p \in {"c1", Consumer} : SF_vars(Continue(p))
    /\ WF_vars(Respond)

\* one booking taken through its life, one call at a time, and rebooked: a user
\* asks for a copy of a booking, which gets a new identifier and booking number
NextRebook ==
    \/ /\ out = NoOut
       /\ Step({"c1"}, RaceIDs, RaceIDs)
       /\ Cardinality({p \in Procs : pc'[p] # "idle"}) <= 1
    \/ /\ out = NoOut
       /\ \A p \in Procs : pc[p] = "idle"
       /\ \E id \in BookingIDs, number \in BookingNumbers, u \in UserIDs, b \in BookingIDs :
             RebookBooking("c1", id, number, u, b)
       /\ UNCHANGED quote
    \/ Respond
SpecRebook == Init /\ [][NextRebook]_vars

\* the pricing strategy and the crate derivation on their own: a calculation is
\* given a distance (hundredths of a kilometre), a pet type, a crate size and a
\* weight (tenths of a kilogram)
Distances == {-1, 0, 1, 3, 101, 200, 1000}
CrateSizes == {"small", "medium", "large", "xlarge"}
Weights == {1, 40, 50, 51, 150, 151, 200, 300, 301}
QuoteInputs ==
    { [NoQuote EXCEPT !.distance = d, !.petType = t, !.crateSize = c, !.weightKg = w] :
        d \in Distances, t \in PetTypes \cup {"fish"}, c \in CrateSizes, w \in Weights }

InitPricing == Idle /\ quote \in QuoteInputs

\* s.pricing.Calculate(params)
CalculateQuote ==
    /\ quote.price = Nil
    /\ quote' = [quote EXCEPT
                    !.price = <<Calculate(quote.distance, quote.petType, quote.crateSize)>>]
    /\ UNCHANGED <<store, now, pc, call, bk, updates, msg, out, emitted>>

\* a second call with the same parameters
CalculateQuoteAgain ==
    /\ quote.price # Nil
    /\ quote.again = Nil
    /\ quote' = [quote EXCEPT
                    !.again = <<Calculate(quote.distance, quote.petType, quote.crateSize)>>]
    /\ UNCHANGED <<store, now, pc, call, bk, updates, msg, out, emitted>>

\* DetermineCrateRequirement(petSpec)
DeriveCrate ==
    /\ quote.crate = Nil
    /\ quote' = [quote EXCEPT
                    !.crate = <<DetermineCrateRequirement(
                                   [petType |-> quote.petType, name |-> "Rex",
                                    weightKg |-> quote.weightKg])>>]
    /\ UNCHANGED <<store, now, pc, call, bk, updates, msg, out, emitted>>

NextPricing ==
    \/ CalculateQuote
    \/ CalculateQuoteAgain
    \/ DeriveCrate
SpecPricing == InitPricing /\ [][NextPricing]_vars

\* ================================================================ claims

\* the transition table of the specification, section 4.1
TableEdges ==
    [s \in {"requested", "accepted", "in_progress", "delivered", "completed",
            "cancelled"} |->
        CASE s = "requested" -> {"accepted", "cancelled"}
          [] s = "accepted" -> {"in_progress", "cancelled"}
          [] s = "in_progress" -> {"delivered", "cancelled"}
          [] s = "delivered" -> {"completed"}
          [] OTHER -> {}]

\* the status an operation moves the booking to
Target(o) ==
    CASE o = "accept" -> "accepted"
      [] o = "start" -> "in_progress"
      [] o = "deliver" -> "delivered"
      [] o = "complete" -> "completed"
      [] o = "cancel" -> "cancelled"
      [] OTHER -> ""

TransitionOps == {"accept", "start", "deliver", "complete", "cancel"}

\* goroutine p starts a service call in this step; StartedCall is that call
Starts(p) == pc[p] = "idle" /\ (pc'[p] # "idle" \/ (out' # NoOut /\ out'.p = p))
StartedCall(p) == IF pc'[p] # "idle" THEN call'[p] ELSE out'.call
\* goroutine p executes repo.Update in this step
Updates(p) == pc[p] = "update" /\ pc'[p] # "update"

\* C1: every change of a stored booking's status goes along one edge of the
\* transition table; no other status change is ever committed.
C1_StatusFollowsTable ==
    [][\A id \in DOMAIN store :
          store'[id].status # store[id].status
             => store'[id].status \in TableEdges[store[id].status]]_vars

\* C1 witness: a booking has gone requested -> accepted -> in_progress ->
\* delivered -> completed.
C1_Witness ==
    \E id \in DOMAIN store : store[id].status = "completed" /\ store[id].version = 5

\* C2: of the updates that goroutines hold against the same stored version of
\* one booking, the first to execute succeeds and the row equals its snapshot in
\* every field; every other one is then stale and ends in a conflict that changes
\* nothing, so no two of them are ever both committed.
C2_OneWinnerOneConflict ==
    [][/\ \A p \in Procs :
            Updates(p) =>
               IF store[bk[p].id].version = bk[p].version - 1
               THEN /\ pc'[p] = "publish"
                    /\ store'[bk[p].id] = toBookingModel(bk[p])
                    /\ \A q \in Procs \ {p} :
                          (pc[q] = "update" /\ bk[q].id = bk[p].id
                                            /\ bk[q].version = bk[p].version)
                          => /\ pc'[q] = "update"
                             /\ store'[bk[q].id].version # bk[q].version - 1
               ELSE /\ out'.p = p
                    /\ out'.err = [kind |-> "conflict", cur |-> "", target |-> ""]
                    /\ pc'[p] = "idle"
                    /\ store' = store
      /\ \A p \in Procs : \A q \in Procs \ {p} :
            ~ ( /\ pc'[p] = "publish" /\ pc'[q] = "publish"
                /\ bk'[p].id = bk'[q].id
                /\ bk'[p].version = bk'[q].version )]_vars

\* C2 witness: the loser of such a race has received its conflict while the
\* winner has committed the same version with a different snapshot.
C2_Witness ==
    /\ out.err.kind = "conflict"
    /\ \E p \in Procs \ {out.p} :
          /\ pc[p] = "publish"
          /\ bk[p].id = out.call.id
          /\ bk[p].version = out.version
          /\ store[bk[p].id] = toBookingModel(bk[p])
          /\ call[p] # out.call

\* C3: Update succeeds only if the stored row has version booking.version - 1;
\* on success the row holds the submitted snapshot's mutable fields and its
\* version; otherwise the store is unchanged and a conflict is returned.
C3_UpdateContract ==
    [][\A p \in Procs :
          Updates(p) =>
             LET b == bk[p]
                 matches == b.id \in DOMAIN store /\ store[b.id].version = b.version - 1
             IN IF matches
                THEN /\ pc'[p] = "publish"
                     /\ store'[b.id].version = b.version
                     /\ store'[b.id].status = b.status
                     /\ store'[b.id].runnerID = b.runnerID
                     /\ store'[b.id].finalPriceCents = b.finalPriceCents
                     /\ store'[b.id].pickedUpAt = b.pickedUpAt
                     /\ store'[b.id].deliveredAt = b.deliveredAt
                     /\ store'[b.id].cancelledAt = b.cancelledAt
                     /\ store'[b.id].cancelNote = b.cancelNote
                     /\ store'[b.id].updatedAt = b.updatedAt
                     /\ toDomainBooking(store'[b.id]).bk.petSpec = b.petSpec
                     /\ toDomainBooking(store'[b.id]).bk.crateReq = b.crateReq
                     /\ store'[b.id].estimatedPriceCents = b.estimatedPriceCents
                     /\ store'[b.id].currency = b.currency
                     /\ \A i \in DOMAIN store \ {b.id} : store'[i] = store[i]
                ELSE /\ store' = store
                     /\ out'.p = p
                     /\ out'.err.kind = "conflict"]_vars

\* C3 witness: an update has been refused for a stale version after another
\* one was applied.
C3_Witness ==
    /\ out.err.kind = "conflict"
    /\ out.call.id \in DOMAIN store
    /\ store[out.call.id].version >= out.version

\* C4: a booking is stored with version 1 when it is created; every step that
\* changes a stored booking raises its version by exactly 1 and leaves every
\* other booking as it was.
C4_VersionStepsByOne ==
    [][\A id \in DOMAIN store' :
          /\ id \notin DOMAIN store => store'[id].version = 1
          /\ (id \in DOMAIN store /\ store'[id] # store[id]) =>
                /\ store'[id].version = store[id].version + 1
                /\ \A i \in DOMAIN store \ {id} : store'[i] = store[i]]_vars

\* C4 witness: two bookings are stored, one after three transitions and one
\* still as created.
C4_Witness ==
    \E i \in DOMAIN store : \E j \in DOMAIN store :
        store[i].version = 4 /\ store[j].version = 1

EventTypeOf(st) ==
    CASE st = "accepted" -> "booking.accepted"
      [] st = "in_progress" -> "booking.pet_picked_up"
      [] st = "delivered" -> "booking.delivery_confirmed"
      [] st = "completed" -> "booking.completed"
      [] st = "cancelled" -> "booking.cancelled"
      [] OTHER -> "booking.requested"

\* the events handed to the publisher for version v of booking id
EventsOf(id, v) == {i \in DOMAIN emitted[id] : emitted[id][i].version = v}
\* the goroutines that committed version v of booking id and have yet to publish
Publishing(id, v) ==
    {p \in Procs : pc[p] = "publish" /\ bk[p].id = id /\ bk[p].version = v}

\* C6: every committed transition hands exactly one event to the publisher, and
\* only after its commit: an event never announces a version that is not stored
\* yet, and each stored version past the first has either its one event or the one
\* goroutine that committed it and is about to publish.
C6_OneEventAfterCommit ==
    \A id \in BookingIDs :
       /\ id \notin DOMAIN store => emitted[id] = << >>
       /\ id \in DOMAIN store =>
             /\ \A i \in DOMAIN emitted[id] :
                   /\ emitted[id][i].version <= store[id].version
                   /\ emitted[id][i].bookingID = id
                   /\ emitted[id][i].version = store[id].version
                         => emitted[id][i].type = EventTypeOf(store[id].status)
             /\ \A v \in 2..store[id].version :
                   Cardinality(EventsOf(id, v)) + Cardinality(Publishing(id, v)) = 1
             /\ \A p \in Procs :
                   (pc[p] = "publish" /\ bk[p].id = id) => bk[p].version <= store[id].version

\* C6 witness: accept, pickup, deliver and a cancellation refused in between have
\* left one event per committed transition.
C6_Witness ==
    \E id \in DOMAIN store :
       /\ store[id].status = "delivered"
       /\ Len(emitted[id]) = 4
       /\ emitted[id][2].type = "booking.accepted"
       /\ emitted[id][3].type = "booking.pet_picked_up"
       /\ emitted[id][4].type = "booking.delivery_confirmed"

\* C7: an update refused for a version conflict ends the operation: the caller
\* gets the conflict, nothing is published, the store is unchanged, and the
\* operation has made exactly one update attempt and is not tried again.
C7_ConflictSurfacedNoRetry ==
    [][\A p \in Procs :
          ( /\ pc[p] = "update"
            /\ <<pc[p], bk[p], updates[p]>> # <<pc'[p], bk'[p], updates'[p]>>
            /\ store[bk[p].id].version # bk[p].version - 1 )
          => /\ out'.p = p
             /\ out'.call = call[p]
             /\ out'.err = [kind |-> "conflict", cur |-> "", target |-> ""]
             /\ out'.updates = 1
             /\ out'.published = ""
             /\ pc'[p] = "idle"
             /\ store' = store
             /\ emitted' = emitted]_vars

\* C7 witness: a cancellation that lost the race against an accept has returned
\* its conflict after one update attempt.
C7_Witness ==
    /\ out.err.kind = "conflict"
    /\ out.call.op = "cancel"
    /\ out.updates = 1
    /\ store[out.call.id].status = "accepted"
    /\ pc[out.p] = "idle"

\* the consumer has read an escrow-released message and found the booking delivered
EscrowReleasedForDelivered(id) ==
    /\ pc[Consumer] = "update"
    /\ msg.type = PaymentEscrowReleased
    /\ msg.bookingID = id
    /\ call[Consumer].from = "delivered"

\* booking id is completed at its estimated price and its completion event, with the
\* booking's id, runner, final price and currency, has been handed to the publisher
CompletedAndAnnounced(id) ==
    /\ id \in DOMAIN store
    /\ store[id].status = "completed"
    /\ store[id].finalPriceCents = <<store[id].estimatedPriceCents>>
    /\ \E i \in DOMAIN emitted[id] :
          /\ emitted[id][i].type = "booking.completed"
          /\ emitted[id][i].bookingID = id
          /\ <<emitted[id][i].runnerID>> = store[id].runnerID
          /\ emitted[id][i].price = store[id].finalPriceCents
          /\ emitted[id][i].currency = store[id].currency
          /\ emitted[id][i].version = store[id].version

\* C8: an escrow-released message handled for a delivered booking leads to the
\* booking being completed with its final price equal to its estimated price and
\* its completion event published; the step that completes it raises the stored
\* version by exactly 1.
C8_EscrowReleasedCompletes ==
    /\ \A id \in BookingIDs : EscrowReleasedForDelivered(id) ~> CompletedAndAnnounced(id)
    /\ [][\A id \in DOMAIN store :
             (store[id].status = "delivered" /\ store'[id] # store[id])
             => /\ store'[id].status = "completed"
                /\ store'[id].version = store[id].version + 1
                /\ store'[id].finalPriceCents = <<store[id].estimatedPriceCents>>
                /\ store'[id].estimatedPriceCents = store[id].estimatedPriceCents]_vars

\* C8 witness: the consumer's own completion went through and its event was
\* delivered.
C8_Witness ==
    /\ out.p = Consumer
    /\ out.msg.type = PaymentEscrowReleased
    /\ out.err = NoErr
    /\ out.published = "delivered"
    /\ out.call.from = "delivered"
    /\ CompletedAndAnnounced(out.call.id)
    /\ store[out.call.id].version = out.version

\* C9: completing a booking that is already completed fails with an invalid-state
\* error, and a completed booking's row, final price and version included, never
\* changes again, however often the completion is asked for.
C9_CompletedStaysCompleted ==
    [][/\ \A p \in Procs :
            ( /\ Starts(p)
              /\ StartedCall(p).op = "complete"
              /\ StartedCall(p).id \in DOMAIN store
              /\ store[StartedCall(p).id].status = "completed" )
            => /\ out'.p = p
               /\ out'.err = [kind |-> "invalid_state", cur |-> "completed",
                              target |-> "completed"]
               /\ store' = store
               /\ emitted' = emitted
      /\ \A id \in DOMAIN store :
            store[id].status = "completed"
            => /\ store'[id].finalPriceCents = store[id].finalPriceCents
               /\ store'[id].version = store[id].version
               /\ store'[id] = store[id]]_vars

\* C9 witness: a redelivered escrow-released message has been refused for a
\* booking that is completed at its estimated price.
C9_Witness ==
    /\ out.p = Consumer
    /\ out.msg.type = PaymentEscrowReleased
    /\ out.err = [kind |-> "invalid_state", cur |-> "completed", target |-> "completed"]
    /\ store[out.call.id].status = "completed"
    /\ store[out.call.id].finalPriceCents = <<store[out.call.id].estimatedPriceCents>>

\* C10: when the escrow-released message is handled for a booking that is not
\* delivered, the failed transition is reported to the consumer loop as a
\* processed message: the handler returns nil.
C10_FailedCompletionIsHandled ==
    ( /\ out.p = Consumer
      /\ out.call.op = "complete"
      /\ out.err.kind = "invalid_state" )
    => out.handled = "nil"

\* C11: a stored booking's status becomes completed only in a step of the payment
\* consumer handling an escrow-released message, never in a step of an HTTP call.
C11_CompletedOnlyByEscrowReleased ==
    [][\A id \in DOMAIN store :
          (store[id].status # "completed" /\ store'[id].status = "completed")
          => /\ pc[Consumer] = "update"
             /\ pc'[Consumer] = "publish"
             /\ msg.type = PaymentEscrowReleased
             /\ msg.bookingID = id]_vars

Cancellable == {"requested", "accepted", "in_progress"}

\* goroutine p's update of a cancellation that passed the aggregate's check
CancelUpdates(p) ==
    /\ Updates(p)
    /\ call[p].op = "cancel"
    /\ call[p].from \in Cancellable

\* a cancellation is refused for a delivered or completed booking; a committed
\* cancellation stores status, reason and cancelledAt; cancelledAt is written
\* only by a step that cancels and only while it is unset
CancelEffects ==
    /\ \A p \in Procs :
          ( /\ Starts(p)
            /\ StartedCall(p).op = "cancel"
            /\ StartedCall(p).id \in DOMAIN store
            /\ store[StartedCall(p).id].status \in {"delivered", "completed"} )
          => /\ out'.p = p
             /\ out'.err.kind = "invalid_state"
             /\ store' = store
    /\ \A p \in Procs :
          ( /\ Starts(p)
            /\ StartedCall(p).op = "cancel"
            /\ StartedCall(p).id \in DOMAIN store
            /\ store[StartedCall(p).id].status \in Cancellable )
          => /\ pc'[p] = "update"
             /\ bk'[p].status = "cancelled"
             /\ bk'[p].cancelNote = StartedCall(p).reason
             /\ bk'[p].cancelledAt # Nil
    /\ \A p \in Procs :
          (CancelUpdates(p) /\ pc'[p] = "publish")
          => /\ store'[bk[p].id].status = "cancelled"
             /\ store'[bk[p].id].cancelNote = call[p].reason
             /\ store'[bk[p].id].cancelledAt = bk[p].cancelledAt
             /\ store'[bk[p].id].cancelledAt # Nil
    /\ \A id \in DOMAIN store :
          store'[id].cancelledAt # store[id].cancelledAt
          => /\ store[id].cancelledAt = Nil
             /\ store[id].status \in Cancellable
             /\ store'[id].status = "cancelled"

C13_TerminalRowsFrozen ==
    [][\A id \in DOMAIN store :
          store[id].status \in {"completed", "cancelled"}
          => id \in DOMAIN store' /\ store'[id] = store[id]]_vars

\* C13 witness: a call on a cancelled booking has been refused and the booking is
\* still cancelled.
C13_Witness ==
    /\ out.err.kind = "invalid_state"
    /\ out.err.cur = "cancelled"
    /\ store[out.call.id].status = "cancelled"

\* the consumer finishes handling a message in this step; out'.msg is the message
Handles == out = NoOut /\ out' # NoOut /\ out'.p = Consumer

\* the step leaves every booking, every call in progress and every event alone
NothingLoadedOrChanged ==
    /\ store' = store
    /\ emitted' = emitted
    /\ pc' = pc
    /\ bk' = bk
    /\ call' = call

\* C14: a message whose envelope or whose data cannot be parsed is dropped: the
\* handler returns nil to the consumer loop, no stored booking changes and no event
\* is emitted.
C14_MalformedMessageDropped ==
    [][( /\ Handles
         /\ \/ ~out'.msg.envelopeOK
            \/ out'.msg.type = PaymentEscrowReleased /\ ~out'.msg.dataOK )
       => /\ out'.handled = "nil"
          /\ out'.err = NoErr
          /\ out'.call = NoCall
          /\ NothingLoadedOrChanged]_vars

\* C14 witness: a message with unparseable data has been dropped while a booking
\* is stored.
C14_Witness ==
    /\ out.p = Consumer
    /\ out.msg.envelopeOK
    /\ ~out.msg.dataOK
    /\ out.handled = "nil"
    /\ DOMAIN store # {}

\* C15: a message of a type other than payment.escrow_released is ignored: the
\* handler returns nil, loads and changes no booking and emits no event.
C15_OtherTypesIgnored ==
    [][( /\ Handles
         /\ out'.msg.envelopeOK
         /\ out'.msg.type # PaymentEscrowReleased )
       => /\ out'.handled = "nil"
          /\ out'.err = NoErr
          /\ out'.call = NoCall
          /\ NothingLoadedOrChanged]_vars

\* C15 witness: an escrow-held message has been ignored while a delivered booking
\* is stored.
C15_Witness ==
    /\ out.p = Consumer
    /\ out.msg.envelopeOK
    /\ out.msg.type = "payment.escrow_held"
    /\ out.handled = "nil"
    /\ \E id \in DOMAIN store : store[id].status = "delivered"

\* goroutine p commits its snapshot of booking id in this step
Commits(p, id) == Updates(p) /\ pc'[p] = "publish" /\ bk[p].id = id

\* C16: a stored booking has no runner while it is requested, from its creation
\* on; the step that makes it accepted stores the runner of the accepting call,
\* and no other step changes or clears runnerID.
C16_RunnerSetOnceAtAccept ==
    [][\A id \in DOMAIN store' :
          /\ store'[id].status = "requested" => store'[id].runnerID = Nil
          /\ id \notin DOMAIN store => store'[id].runnerID = Nil
          /\ id \in DOMAIN store =>
                /\ store'[id].runnerID # store[id].runnerID
                   => /\ store[id].runnerID = Nil
                      /\ store[id].status = "requested"
                      /\ store'[id].status = "accepted"
                /\ (store[id].status = "requested" /\ store'[id].status = "accepted")
                   => \E p \in Procs :
                         /\ Commits(p, id)
                         /\ call[p].op = "accept"
                         /\ call[p].actor # UuidNil
                         /\ store'[id].runnerID = <<call[p].actor>>]_vars

\* C16 witness: a booking accepted by runner u2 has been delivered with its runner
\* unchanged.
C16_Witness ==
    \E id \in DOMAIN store :
       /\ store[id].status = "delivered"
       /\ store[id].runnerID = <<"u2">>
       /\ \E i \in DOMAIN emitted[id] :
             emitted[id][i].type = "booking.accepted" /\ emitted[id][i].runnerID = "u2"

\* C17: finalPriceCents of a stored booking is unset whenever its status is not
\* completed and set whenever it is completed; it is written only by the step that
\* completes the booking and never again.
C17_FinalPriceSetOnceAtCompletion ==
    [][\A id \in DOMAIN store' :
          /\ store'[id].status # "completed" <=> store'[id].finalPriceCents = Nil
          /\ (id \in DOMAIN store
                /\ store'[id].finalPriceCents # store[id].finalPriceCents)
             => /\ store[id].finalPriceCents = Nil
                /\ store[id].status = "delivered"
                /\ store'[id].status = "completed"]_vars

\* C17 witness: a second completion of a completed booking has been refused and
\* the final price is still the one set at completion.
C17_Witness ==
    /\ out.call.op = "complete"
    /\ out.err.kind = "invalid_state"
    /\ out.call.from = "completed"
    /\ store[out.call.id].finalPriceCents = <<4000>>

\* C18: pickedUpAt, deliveredAt and cancelledAt are each written only while unset
\* and only by the step that commits their transition (accepted -> in_progress,
\* in_progress -> delivered, -> cancelled), which always writes them; no later
\* step modifies them.
C18_TimestampsSetOnceAtTransition ==
    [][\A id \in DOMAIN store' :
          IF id \notin DOMAIN store
          THEN /\ store'[id].pickedUpAt = Nil
               /\ store'[id].deliveredAt = Nil
               /\ store'[id].cancelledAt = Nil
          ELSE /\ store'[id].pickedUpAt # store[id].pickedUpAt
                  <=> (store[id].status = "accepted" /\ store'[id].status = "in_progress")
               /\ store'[id].deliveredAt # store[id].deliveredAt
                  <=> (store[id].status = "in_progress" /\ store'[id].status = "delivered")
               /\ store'[id].cancelledAt # store[id].cancelledAt
                  <=> (store[id].status # "cancelled" /\ store'[id].status = "cancelled")
               /\ store'[id].pickedUpAt # store[id].pickedUpAt => store[id].pickedUpAt = Nil
               /\ store'[id].deliveredAt # store[id].deliveredAt => store[id].deliveredAt = Nil
               /\ store'[id].cancelledAt # store[id].cancelledAt => store[id].cancelledAt = Nil]_vars

\* C18 witness: a booking picked up at instant 0 has been delivered at instant 1
\* and its pickup time is still 0.
C18_Witness ==
    \E id \in DOMAIN store :
       /\ store[id].status = "delivered"
       /\ store[id].pickedUpAt = <<0>>
       /\ store[id].deliveredAt = <<1>>
       /\ store[id].cancelledAt = Nil

\* C19: every step that changes any field of a stored booking increases that
\* booking's stored version.
C19_NoChangeWithoutVersionBump ==
    [][\A id \in DOMAIN store :
          /\ id \in DOMAIN store'
          /\ store'[id] # store[id] => store'[id].version > store[id].version]_vars

\* C19 witness: a booking's status, runner and pickup time have changed and its
\* version has been raised twice.
C19_Witness ==
    \E id \in DOMAIN store :
       /\ store[id].status = "in_progress"
       /\ store[id].version = 3
       /\ store[id].updatedAt = 1

\* the results of every aggregate operation on aggregate b
AggregateResults(b) ==
    {Accept(b, u, t) : u \in UserIDs \cup {UuidNil}, t \in 0..MaxClock}
    \cup {StartDelivery(b, t) : t \in 0..MaxClock}
    \cup {ConfirmDelivery(b, t) : t \in 0..MaxClock}
    \cup {Complete(b, b.estimatedPriceCents, t) : t \in 0..MaxClock}
    \cup {Cancel(b, r, t) : r \in Reasons, t \in 0..MaxClock}

\* C20: Accept, StartDelivery, ConfirmDelivery, Complete and Cancel, applied to
\* any stored booking, leave its version as it is, and a failing one leaves
\* every field as it is; a call that passes the check holds a snapshot whose
\* version is the stored one plus the single step of IncrementVersion, and a call
\* refused by the aggregate changes no stored version.
C20_OperationsKeepVersion ==
    [][/\ \A id \in DOMAIN store' :
            LET b == FindByID(store', id).bk IN
            \A r \in AggregateResults(b) :
               /\ r.bk.version = b.version
               /\ r.err # NoErr => r.bk = b
       /\ \A p \in Procs :
            (Starts(p) /\ StartedCall(p).op \in TransitionOps
                       /\ StartedCall(p).id \in DOMAIN store)
            => /\ store' = store
               /\ IF pc'[p] = "update"
                  THEN bk'[p].version = store[StartedCall(p).id].version + 1
                  ELSE out'.err.kind \in {"invalid_state", "validation"}]_vars

\* C20 witness: a pickup of a requested booking has been refused and the booking
\* is still at version 1, while an accept of it holds a snapshot at version 2.
C20_Witness ==
    /\ out.call.op = "start"
    /\ out.err.kind = "invalid_state"
    /\ store[out.call.id].version = 1
    /\ \E p \in Procs :
          /\ pc[p] = "update"
          /\ call[p].op = "accept"
          /\ bk[p].id = out.call.id
          /\ bk[p].version = 2

\* goroutine p returns from its publication in this step
PublishReturns(p) == pc[p] = "publish" /\ out = NoOut /\ out' # NoOut /\ out'.p = p

\* C21: when the publication of a committed transition's event fails, the
\* committed row stays as it is, the call returns success, and the event is handed
\* to the producer once and not again.
C21_PublishFailureKeepsCommit ==
    [][\A p \in Procs :
          (PublishReturns(p) /\ out'.published = "failed")
          => /\ out'.err = NoErr
             /\ store' = store
             /\ store[bk[p].id].version >= bk[p].version
             /\ pc'[p] = "idle"
             /\ Len(emitted'[bk[p].id]) = Len(emitted[bk[p].id]) + 1
             /\ \A id \in BookingIDs \ {bk[p].id} : emitted'[id] = emitted[id]]_vars

\* C21 witness: an accept has returned success although its event could not be
\* published, and the booking is accepted.
C21_Witness ==
    /\ out.call.op = "accept"
    /\ out.published = "failed"
    /\ out.err = NoErr
    /\ store[out.call.id].status = "accepted"
    /\ store[out.call.id].version = out.version

\* a booking with identifier id at version v, as an update would submit it
Submitted(id, v) ==
    [NewBooking(id, id, "u1", [petType |-> "dog", name |-> "Rex", weightKg |-> 100],
                DetermineCrateRequirement([petType |-> "dog", name |-> "Rex",
                                           weightKg |-> 100]),
                PickupAddress(DogRequest), DropoffAddress(DogRequest),
                4000, "MYR", "", 0).bk EXCEPT !.version = v]

\* C22: an update that matches no row, because the stored version is not
\* booking.version - 1 or because the id is not stored, returns a conflict and
\* never not-found; a lookup returns not-found exactly for an id that is not
\* stored, and a call ends in not-found only when its lookup did.
C22_ZeroRowsIsConflict ==
    [][/\ \A id \in BookingIDs : \A v \in 1..7 :
            LET u == Update(store', Submitted(id, v)) IN
            /\ u.err = IF id \in DOMAIN store' /\ store'[id].version = v - 1
                       THEN NoErr
                       ELSE [kind |-> "conflict", cur |-> "", target |-> ""]
            /\ u.err # NoErr => u.store = store'
       /\ \A id \in BookingIDs :
            FindByID(store', id).err.kind = "not_found" <=> id \notin DOMAIN store'
       /\ \A p \in Procs :
            (out = NoOut /\ out' # NoOut /\ out'.p = p /\ out'.err.kind = "not_found")
            => /\ pc[p] = "idle"
               /\ out'.call.id \notin DOMAIN store
               /\ out'.updates = 0
       /\ \A p \in Procs :
            (Updates(p) /\ pc'[p] = "idle") => out'.err.kind = "conflict"]_vars

\* C22 witness: an update has been refused with a conflict while another
\* identifier is not stored at all.
C22_Witness ==
    /\ out.err.kind = "conflict"
    /\ out.updates = 1
    /\ BookingIDs \ DOMAIN store # {}

\* a creation input the specification calls malformed
Malformed(ownerID, req) ==
    \/ ownerID = "00000000"
    \/ req.name = ""
    \/ req.petType \notin {"dog", "cat", "bird", "reptile", "rabbit", "other"}
    \/ req.weightKg <= 0
    \/ req.pickupLine1 = ""
    \/ req.dropoffLine1 = ""

\* goroutine p runs CreateBooking in this step
Creates(p) == Starts(p) /\ StartedCall(p).op = "create"

\* C23: a creation whose owner id is missing, whose pet name is empty, whose pet
\* type is not recognized, whose weight is not positive or whose pickup or dropoff
\* line 1 is empty fails with a validation error, as does the constructor for a
\* price that is not positive; nothing is saved and no event is emitted. A
\* booking that is stored by a creation has status requested and version 1.
C23_CreateValidates ==
    [][/\ \A p \in Procs :
            Creates(p) =>
               \A id \in BookingIDs, number \in BookingNumbers, in \in CreateInputs :
                  CreateBooking(p, id, number, in[1], in[2]) =>
                     IF Malformed(in[1], in[2])
                     THEN /\ out'.p = p
                          /\ out'.err.kind = "validation"
                          /\ pc'[p] = "idle"
                          /\ store' = store
                          /\ emitted' = emitted
                     ELSE out'.err.kind # "validation"
       /\ \A id \in DOMAIN store' \ DOMAIN store :
            /\ store'[id].status = "requested"
            /\ store'[id].version = 1
            /\ \E p \in Procs : Creates(p) /\ pc'[p] = "publish" /\ bk'[p].id = id
            /\ emitted' = emitted
       /\ \A price \in {-1, 0} :
            NewBooking(1, 1, "u1", buildPetSpecification(DogRequest),
                       DetermineCrateRequirement(buildPetSpecification(DogRequest)),
                       PickupAddress(DogRequest), DropoffAddress(DogRequest),
                       price, "MYR", "", now).err.kind = "validation"]_vars

\* C23 witness: a creation has been refused with a validation error and nothing
\* is stored.
C23_Witness ==
    /\ out.call.op = "create"
    /\ out.err.kind = "validation"
    /\ store = << >>
    /\ \A id \in BookingIDs : emitted[id] = << >>

\* C24: a creation whose identifier or whose booking number is already stored is
\* refused by the save: CreateBooking returns the error, the store is unchanged
\* and no event is emitted; stored booking numbers stay distinct.
C24_SaveRejectsDuplicates ==
    [][/\ \A p \in Procs :
            Creates(p) =>
               \A id \in BookingIDs, number \in BookingNumbers, in \in CreateInputs :
                  ( /\ ~Malformed(in[1], in[2])
                    /\ \/ id \in DOMAIN store
                       \/ \E j \in DOMAIN store : store[j].bookingNumber = number
                    /\ CreateBooking(p, id, number, in[1], in[2]) )
                  => /\ out'.p = p
                     /\ out'.err \notin {NoErr, NewValidationError}
                     /\ pc'[p] = "idle"
                     /\ store' = store
                     /\ emitted' = emitted
       /\ \A i \in DOMAIN store' : \A j \in DOMAIN store' :
            store'[i].bookingNumber = store'[j].bookingNumber => i = j]_vars

\* C24 witness: a creation under a new identifier has been refused while the only
\* stored booking has another identifier, so its booking number was the duplicate.
C24_Witness ==
    /\ out.call.op = "create"
    /\ out.err.kind = "error"
    /\ DOMAIN store # {}
    /\ out.call.id \notin DOMAIN store

\* the booking of the scenario: owner u1, a dog, 10 km
Scenario(r) == r.ownerID = "u1" /\ r.estimatedPriceCents = 4000

\* C25: with one call at a time, creating a booking for owner u1, a dog and 10 km
\* stores it as requested with estimated price 4000; on that booking every legal
\* call goes through: Accept(runner) stores accepted with that runner,
\* StartDelivery stores in_progress with pickedUpAt, ConfirmDelivery stores
\* delivered with deliveredAt, and the escrow-released message stores completed
\* with finalPriceCents 4000.
C25_EndToEndScenario ==
    [][/\ \A p \in Procs :
            Creates(p) =>
               \A id \in BookingIDs, number \in BookingNumbers :
                  ( /\ id \notin DOMAIN store
                    /\ \A j \in DOMAIN store : store[j].bookingNumber # number
                    /\ CreateBooking(p, id, number, "u1", DogRequest) )
                  => /\ id \in DOMAIN store'
                     /\ store'[id].status = "requested"
                     /\ store'[id].estimatedPriceCents = 4000
                     /\ store'[id].ownerID = "u1"
       /\ \A p \in Procs :
            ( /\ Starts(p)
              /\ StartedCall(p).op \in TransitionOps
              /\ StartedCall(p).id \in DOMAIN store
              /\ Scenario(store[StartedCall(p).id])
              /\ Target(StartedCall(p).op) \in TableEdges[store[StartedCall(p).id].status]
              /\ StartedCall(p).op = "accept" => StartedCall(p).actor # "00000000" )
            => pc'[p] = "update"
       /\ \A p \in Procs :
            (Updates(p) /\ Scenario(store[bk[p].id]))
            => /\ pc'[p] = "publish"
               /\ LET r == store'[bk[p].id] IN
                  CASE call[p].op = "accept" ->
                         r.status = "accepted" /\ r.runnerID = <<call[p].actor>>
                    [] call[p].op = "start" ->
                         r.status = "in_progress" /\ r.pickedUpAt # Nil
                    [] call[p].op = "deliver" ->
                         r.status = "delivered" /\ r.deliveredAt # Nil
                    [] call[p].op = "complete" ->
                         r.status = "completed" /\ r.finalPriceCents = <<4000>>
                    [] OTHER -> r.status = "cancelled"]_vars

\* C25 witness: the escrow-released message has completed the scenario's booking
\* after its acceptance by u2, pickup and delivery.
C25_Witness ==
    /\ out.p = Consumer
    /\ out.msg.type = PaymentEscrowReleased
    /\ out.err = NoErr
    /\ out.call.id \in DOMAIN store
    /\ LET r == store[out.call.id] IN
       /\ r.ownerID = "u1"
       /\ r.status = "completed"
       /\ r.estimatedPriceCents = 4000
       /\ r.finalPriceCents = <<4000>>
       /\ r.runnerID = <<"u2">>
       /\ r.pickedUpAt # Nil
       /\ r.deliveredAt # Nil
       /\ r.version = 5

\* the surcharge tables of the specification
PetSurcharge ==
    [t \in {"dog", "cat", "bird", "reptile", "rabbit", "other"} |->
        CASE t = "dog" -> 500
          [] t = "cat" -> 300
          [] t = "bird" -> 200
          [] t = "reptile" -> 800
          [] t = "rabbit" -> 300
          [] t = "other" -> 500]
CrateSurcharge ==
    [c \in {"small", "medium", "large", "xlarge"} |->
        CASE c = "small" -> 0
          [] c = "medium" -> 500
          [] c = "large" -> 1000
          [] c = "xlarge" -> 2000]
\* distance x 250 truncated toward zero, for a distance d >= 0 in hundredths of a
\* kilometre
TruncatedFare(d) ==
    CHOOSE n \in 0..(3 * d) : n * 100 <= d * 250 /\ d * 250 < (n + 1) * 100

\* C26: a calculated price for a non-negative distance, a recognized pet type and
\* a crate size is 500 + trunc(distance * 250) + the pet surcharge + the crate
\* surcharge; a second calculation with the same inputs gives the same result; a
\* negative distance is rejected; price(10 km, dog, medium) = 4000 and
\* price(0 km, cat, small) = 800.
C26_PriceFormula ==
    /\ quote.price # Nil =>
          LET r == quote.price[1] IN
          /\ quote.distance < 0 => r.err
          /\ (quote.distance >= 0 /\ quote.petType \in DOMAIN PetSurcharge)
             => /\ ~r.err
                /\ r.cents = 500 + TruncatedFare(quote.distance)
                                 + PetSurcharge[quote.petType]
                                 + CrateSurcharge[quote.crateSize]
          /\ (quote.distance = 1000 /\ quote.petType = "dog" /\ quote.crateSize = "medium")
             => r.cents = 4000
          /\ (quote.distance = 0 /\ quote.petType = "cat" /\ quote.crateSize = "small")
             => r.cents = 800
    /\ quote.again # Nil => quote.again = quote.price

\* C26 witness: 1.01 km for a dog in a medium crate has been priced twice at
\* 500 + 252 + 500 + 500.
C26_Witness ==
    /\ quote.distance = 101
    /\ quote.petType = "dog"
    /\ quote.crateSize = "medium"
    /\ quote.again = << [err |-> FALSE, cents |-> 1752] >>

\* C27: the derived crate is small up to 5 kg, medium up to 15 kg, large up to
\* 30 kg and x-large above; ventilation is always required; temperature control
\* is required exactly for a reptile, whatever the weight.
C27_CrateDerivation ==
    quote.crate # Nil =>
       LET c == quote.crate[1] IN
       /\ c.minimumSize = IF quote.weightKg <= 50 THEN "small"
                          ELSE IF quote.weightKg <= 150 THEN "medium"
                          ELSE IF quote.weightKg <= 300 THEN "large"
                          ELSE "xlarge"
       /\ c.needsVentilation
       /\ c.needsTempControl <=> quote.petType = "reptile"
       /\ (quote.weightKg = 40 /\ quote.petType # "reptile")
          => (c.minimumSize = "small" /\ ~c.needsTempControl)
       /\ quote.weightKg = 200 => c.minimumSize = "large"

\* C27 witness: a crate has been derived for a reptile of exactly 30 kg: large and
\* temperature-controlled.
C27_Witness ==
    /\ quote.weightKg = 300
    /\ quote.petType = "reptile"
    /\ quote.crate # Nil
    /\ quote.crate[1].minimumSize = "large"
    /\ quote.crate[1].needsTempControl

\* C28: a booking is stored at creation with the crate requirement derived from
\* its pet specification, and no later step changes its crate requirement, its
\* pet specification, its owner, its booking number or its estimated price.
C28_CreationFieldsImmutable ==
    [][\A id \in DOMAIN store' :
          LET after == FindByID(store', id).bk IN
          IF id \notin DOMAIN store
          THEN after.crateReq = DetermineCrateRequirement(after.petSpec)
          ELSE LET before == FindByID(store, id).bk IN
               /\ after.crateReq = before.crateReq
               /\ after.petSpec = before.petSpec
               /\ after.ownerID = before.ownerID
               /\ after.bookingNumber = before.bookingNumber
               /\ after.estimatedPriceCents = before.estimatedPriceCents
               /\ store'[id].crateReq = store[id].crateReq
               /\ store'[id].petSpec = store[id].petSpec]_vars

\* C28 witness: after acceptance, pickup and delivery the dog's booking still has
\* the medium crate derived at its creation, its owner and its price.
C28_Witness ==
    \E id \in DOMAIN store :
       LET b == FindByID(store, id).bk IN
       /\ b.status = "delivered"
       /\ b.version = 4
       /\ b.petSpec = [petType |-> "dog", name |-> "Rex", weightKg |-> 100]
       /\ b.crateReq = DetermineCrateRequirement(b.petSpec)
       /\ b.crateReq.minimumSize = "medium"
       /\ b.ownerID = "u1"
       /\ b.estimatedPriceCents = 4000

\* event e is the one for the transition that goroutine p committed with its
\* snapshot: the type of the status it committed, the booking's id and number, and
\* the values the transition wrote, which the stored row still holds
AnnouncesCommit(e, p) ==
    LET snap == bk[p]
        row == store[snap.id]
    IN
    /\ snap.version <= row.version
    /\ e.type = EventTypeOf(snap.status)
    /\ e.bookingID = snap.id
    /\ e.bookingNumber = row.bookingNumber
    /\ CASE snap.status = "requested" ->
              e.ownerID = row.ownerID /\ e.price = <<row.estimatedPriceCents>>
         [] snap.status = "accepted" ->
              <<e.runnerID>> = row.runnerID /\ e.runnerID = call[p].actor
         [] snap.status = "in_progress" ->
              <<e.runnerID>> = row.runnerID /\ e.pickedUpAt = row.pickedUpAt
                                            /\ e.pickedUpAt # Nil
         [] snap.status = "delivered" ->
              <<e.runnerID>> = row.runnerID /\ e.deliveredAt = row.deliveredAt
                                            /\ e.deliveredAt # Nil
         [] snap.status = "completed" ->
              /\ <<e.runnerID>> = row.runnerID
              /\ e.price = row.finalPriceCents
              /\ e.price # Nil
              /\ e.currency = row.currency
         [] snap.status = "cancelled" ->
              e.reason = row.cancelNote /\ e.cancelledBy = call[p].actor

\* C29: every event handed to the publisher is appended by a goroutine that has
\* committed a transition, has the type of that transition and carries the
\* booking's id and number and the values committed in it (owner and price,
\* runner, pickup or delivery time, final price and currency, cancellation reason).
C29_EventMatchesTransition ==
    [][\A id \in BookingIDs :
          emitted'[id] # emitted[id]
          => /\ Len(emitted'[id]) = Len(emitted[id]) + 1
             /\ SubSeq(emitted'[id], 1, Len(emitted[id])) = emitted[id]
             /\ id \in DOMAIN store
             /\ \E p \in Procs :
                   /\ pc[p] = "publish"
                   /\ pc'[p] = "idle"
                   /\ bk[p].id = id
                   /\ AnnouncesCommit(emitted'[id][Len(emitted'[id])], p)]_vars

\* C29 witness: the booking's events are requested, accepted and cancelled, the
\* last one with the stored reason.
C29_Witness ==
    \E id \in DOMAIN store :
       /\ store[id].status = "cancelled"
       /\ Len(emitted[id]) = 3
       /\ emitted[id][1].type = "booking.requested"
       /\ emitted[id][2].type = "booking.accepted"
       /\ emitted[id][3].type = "booking.cancelled"
       /\ emitted[id][3].reason = store[id].cancelNote
       /\ emitted[id][3].bookingNumber = store[id].bookingNumber

\* the goroutines other than p that hold an update built from the snapshot p loaded
Rivals(p) ==
    {q \in Procs \ {p} : /\ pc[q] = "update"
                         /\ bk[q].id = bk[p].id
                         /\ bk[q].version = bk[p].version}

\* C30: of the transitions that race on one booking from the same loaded snapshot,
\* the first to execute its update wins: the stored row becomes its snapshot (after
\* an accept the runner is the winning caller) and its rivals wait, now stale; an
\* update whose version has already been committed returns a conflict and leaves
\* the row and the events alone; and an event is emitted only by a goroutine that
\* has committed, once per committed version.
C30_RaceWinnerTakesAll ==
    [][/\ \A p \in Procs :
            Updates(p) =>
               LET id == bk[p].id IN
               /\ (Rivals(p) # {} /\ store[id].version = bk[p].version - 1)
                  => /\ pc'[p] = "publish"
                     /\ store'[id] = toBookingModel(bk[p])
                     /\ call[p].op = "accept" => store'[id].runnerID = <<call[p].actor>>
                     /\ emitted' = emitted
                     /\ \A q \in Rivals(p) :
                           /\ pc'[q] = "update"
                           /\ store'[id].version >= bk'[q].version
               /\ store[id].version >= bk[p].version
                  => /\ out'.p = p
                     /\ out'.err.kind = "conflict"
                     /\ pc'[p] = "idle"
                     /\ store' = store
                     /\ emitted' = emitted
      /\ \A id \in BookingIDs :
            emitted'[id] # emitted[id]
            => \E p \in Procs :
                  /\ pc[p] = "publish"
                  /\ bk[p].id = id
                  /\ store[id].version >= bk[p].version
                  /\ emitted'[id] = Append(emitted[id], BuildEvent(call[p], bk[p]).bk)
                  /\ \A i \in DOMAIN emitted[id] :
                        emitted[id][i].version # bk[p].version]_vars

\* C30 witness: two runners accepted the same requested booking; the second to
\* update got a conflict, the row names the first, and the only accepted event is
\* the first runner's.
C30_Witness ==
    /\ out.err.kind = "conflict"
    /\ out.call.op = "accept"
    /\ out.call.id \in DOMAIN store
    /\ store[out.call.id].status = "accepted"
    /\ store[out.call.id].runnerID # <<out.call.actor>>
    /\ store[out.call.id].version = out.version
    /\ \E i \in DOMAIN emitted[out.call.id] :
          /\ emitted[out.call.id][i].type = "booking.accepted"
          /\ <<emitted[out.call.id][i].runnerID>> = store[out.call.id].runnerID
    /\ \A i \in DOMAIN emitted[out.call.id] :
          emitted[out.call.id][i].runnerID # out.call.actor

\* the types of the events handed to the publisher for booking id, in order
EmittedTypes(id) == [i \in DOMAIN emitted[id] |-> emitted[id][i].type]

\* C31: whatever the callers do and however often the payment signal is delivered
\* again, a booking has at most one event of each outbound type, and never both a
\* completed and a cancelled event.
C31_OneEventPerType ==
    \A id \in BookingIDs :
       /\ \A i, j \in DOMAIN emitted[id] :
             i # j => EmittedTypes(id)[i] # EmittedTypes(id)[j]
       /\ \A i \in DOMAIN emitted[id] :
             EmittedTypes(id)[i] \in {BookingRequested, BookingAccepted, BookingPetPickedUp,
                                      BookingDeliveryConfirmed, BookingCompleted,
                                      BookingCancelled}
       /\ ~ ( /\ \E i \in DOMAIN emitted[id] : EmittedTypes(id)[i] = BookingCompleted
              /\ \E i \in DOMAIN emitted[id] : EmittedTypes(id)[i] = BookingCancelled )

\* C31 witness: the payment signal for a completed booking has been delivered
\* again and refused, and the booking has its one completed event.
C31_Witness ==
    /\ out.p = Consumer
    /\ out.msg.type = PaymentEscrowReleased
    /\ out.err.kind = "invalid_state"
    /\ out.err.cur = "completed"
    /\ Cardinality({i \in DOMAIN emitted[out.call.id] :
                       emitted[out.call.id][i].type = BookingCompleted}) = 1

\* the transitions committed on booking id: one for each of its events and for
\* each goroutine about to publish one, less the creation
CommittedTransitions(id) ==
    Len(emitted[id]) + Cardinality({p \in Procs : pc[p] = "publish" /\ bk[p].id = id}) - 1

\* C32: the stored version follows from the path taken: requested 1, accepted 2,
\* in_progress 3, delivered 4, completed 5, cancelled one of 2..4; it never exceeds
\* 5 and is 1 plus the number of transitions committed on the booking.
C32_VersionFollowsPath ==
    \A id \in DOMAIN store :
       /\ store[id].status = "requested" => store[id].version = 1
       /\ store[id].status = "accepted" => store[id].version = 2
       /\ store[id].status = "in_progress" => store[id].version = 3
       /\ store[id].status = "delivered" => store[id].version = 4
       /\ store[id].status = "completed" => store[id].version = 5
       /\ store[id].status = "cancelled" => store[id].version \in 2..4
       /\ store[id].version <= 5
       /\ store[id].version = 1 + CommittedTransitions(id)

\* C32 witness: a booking cancelled after its pickup is at version 4, with all
\* four events published.
C32_Witness ==
    \E id \in DOMAIN store :
       /\ store[id].status = "cancelled"
       /\ store[id].version = 4
       /\ Len(emitted[id]) = 4

\* C33: in every stored booking the optional fields agree with the status.
C33_OptionalFieldsMatchStatus ==
    \A id \in DOMAIN store :
       LET r == store[id] IN
       /\ r.cancelledAt # Nil <=> r.status = "cancelled"
       /\ r.finalPriceCents # Nil <=> r.status = "completed"
       /\ r.deliveredAt # Nil <=> r.status \in {"delivered", "completed"}
       /\ r.status \in {"in_progress", "delivered", "completed"}
             => r.pickedUpAt # Nil /\ r.runnerID # Nil
       /\ r.status = "requested"
             => /\ r.runnerID = Nil
                /\ r.pickedUpAt = Nil
                /\ r.deliveredAt = Nil
                /\ r.cancelledAt = Nil
                /\ r.finalPriceCents = Nil
       /\ r.status = "cancelled" => r.deliveredAt = Nil /\ r.finalPriceCents = Nil

\* C33 witness: a booking cancelled during the delivery keeps its runner and its
\* pickup time and has no delivery time and no final price.
C33_Witness ==
    \E id \in DOMAIN store :
       /\ store[id].status = "cancelled"
       /\ store[id].cancelledAt # Nil
       /\ store[id].pickedUpAt # Nil
       /\ store[id].runnerID # Nil
       /\ store[id].deliveredAt = Nil
       /\ store[id].finalPriceCents = Nil

\* C34: when StartDelivery or ConfirmDelivery builds its event after its commit,
\* the snapshot has a runner and the timestamp of the transition, so the event is
\* built without a nil dereference; no call ends in a panic.
C34_EventFieldsPresent ==
    /\ \A p \in Procs :
          (pc[p] = "publish" /\ call[p].op \in {"start", "deliver"})
          => /\ bk[p].runnerID # Nil
             /\ call[p].op = "start" => bk[p].pickedUpAt # Nil
             /\ call[p].op = "deliver" => bk[p].deliveredAt # Nil /\ bk[p].pickedUpAt # Nil
             /\ BuildEvent(call[p], bk[p]).err = NoErr
    /\ out.err # Panic

\* C34 witness: a confirmed delivery has committed and is about to build its event.
C34_Witness ==
    \E p \in Procs :
       /\ pc[p] = "publish"
       /\ call[p].op = "deliver"
       /\ store[bk[p].id].status = "delivered"
       /\ BuildEvent(call[p], bk[p]).bk.deliveredAt = store[bk[p].id].deliveredAt

\* the versions of the events handed to the publisher for booking id, in order
EmittedVersions(id) == [i \in DOMAIN emitted[id] |-> emitted[id][i].version]

\* C35 as stated: the events of a booking are published in the order of their
\* commits, the event of version n before the event of version n+1.
C35_EventsInCommitOrder ==
    \A id \in BookingIDs : \A i, j \in DOMAIN emitted[id] :
       i < j => EmittedVersions(id)[i] < EmittedVersions(id)[j]

\* C35: each event of a booking is published after the commit of its own
\* transition, once per committed version, at the end of the booking's events; a
\* lower version whose event is not yet out belongs to a goroutine that has
\* committed it and has still to publish, and only such an event comes out of order.
C35_EventsFollowOwnCommit ==
    [][\A id \in BookingIDs :
          emitted'[id] # emitted[id]
          => /\ Len(emitted'[id]) = Len(emitted[id]) + 1
             /\ SubSeq(emitted'[id], 1, Len(emitted[id])) = emitted[id]
             /\ LET v == emitted'[id][Len(emitted'[id])].version IN
                /\ id \in DOMAIN store
                /\ v <= store[id].version
                /\ \E p \in Publishing(id, v) : pc'[p] = "idle"
                /\ EventsOf(id, v) = {}
                /\ \A w \in 1..(v - 1) :
                      EventsOf(id, w) # {} \/ Publishing(id, w) # {}]_vars

\* C35 witness: the cancellation that committed version 3 has published while the
\* acceptance that committed version 2 has not yet.
C35_Witness ==
    \E id \in DOMAIN store :
       /\ store[id].version = 3
       /\ store[id].status = "cancelled"
       /\ EmittedVersions(id) = <<1, 3>>
       /\ \E p \in Publishing(id, 2) : call[p].op = "accept"

\* the calls whose caller the service is told, or not: every transition but the
\* acceptance, which stores its caller as the runner
CallerBlindOps == {"start", "deliver", "complete", "cancel"}

\* C36: whether StartDelivery, ConfirmDelivery, CompleteBooking or CancelBooking is
\* allowed depends on the stored status alone, the snapshot it builds is the same
\* for every caller, and the row it commits is that snapshot.
C36_CallerDoesNotMatter ==
    [][\A p \in Procs :
          /\ ( /\ Starts(p)
                /\ StartedCall(p).op \in CallerBlindOps
                /\ StartedCall(p).id \in DOMAIN store )
             => LET c == StartedCall(p)
                    found == toDomainBooking(store[c.id]).bk
                    allowed == Target(c.op) \in TableEdges[store[c.id].status]
                IN
                /\ (pc'[p] = "update") <=> allowed
                /\ ~allowed => out'.err = NewInvalidStateError(found.status, Target(c.op))
                /\ \A u \in UserIDs \cup {UuidNil} : \A t \in 0..MaxClock :
                      Apply([c EXCEPT !.actor = u], found, t) = Apply(c, found, t)
                /\ allowed
                      => \A u \in UserIDs \cup {UuidNil} :
                            \E t1 \in Ticks(now) : \E t2 \in Ticks(t1) :
                               bk'[p] = IncrementVersion(
                                           Apply([c EXCEPT !.actor = u], found, t1).bk, t2)
          /\ ( /\ Updates(p)
                /\ call[p].op \in CallerBlindOps
                /\ pc'[p] = "publish" )
             => /\ store'[bk[p].id] = toBookingModel(bk[p])
                /\ store'[bk[p].id].ownerID = store[bk[p].id].ownerID
                /\ store'[bk[p].id].runnerID = store[bk[p].id].runnerID]_vars

\* C36 witness: a user who is not the owner has cancelled the booking.
C36_Witness ==
    /\ out.call.op = "cancel"
    /\ out.err = NoErr
    /\ out.call.id \in DOMAIN store
    /\ store[out.call.id].status = "cancelled"
    /\ out.call.actor # store[out.call.id].ownerID
    /\ <<out.call.actor>> # store[out.call.id].runnerID

\* C37 as stated: Cancel succeeds on every booking whose status is not terminal.
C37_CancelSucceedsUnlessTerminal ==
    [][\A p \in Procs :
          ( /\ Starts(p)
            /\ StartedCall(p).op = "cancel"
            /\ StartedCall(p).id \in DOMAIN store
            /\ ~IsTerminal(store[StartedCall(p).id].status) )
          => pc'[p] = "update"]_vars

\* C38: an acceptance with the nil runner identifier fails, with a validation
\* error on a requested booking and with the invalid-state error on any other; the
\* stored booking, with its status, runner and version, is unchanged and no event
\* is emitted.
C38_NilRunnerRejected ==
    [][\A p \in Procs :
          ( /\ Starts(p)
            /\ StartedCall(p).op = "accept"
            /\ StartedCall(p).actor = UuidNil
            /\ StartedCall(p).id \in DOMAIN store )
          => LET row == store[StartedCall(p).id] IN
             /\ out'.p = p
             /\ pc'[p] = "idle"
             /\ out'.err = IF row.status = "requested"
                           THEN NewValidationError
                           ELSE NewInvalidStateError(row.status, "accepted")
             /\ store' = store
             /\ emitted' = emitted
             /\ Accept(toDomainBooking(row).bk, UuidNil, now).bk = toDomainBooking(row).bk]_vars

\* C38 witness: an acceptance without a runner has been refused with a validation
\* error and the booking is still requested, without runner, at version 1.
C38_Witness ==
    /\ out.call.op = "accept"
    /\ out.call.actor = UuidNil
    /\ out.err.kind = "validation"
    /\ store[out.call.id].status = "requested"
    /\ store[out.call.id].runnerID = Nil
    /\ store[out.call.id].version = 1
    /\ \A i \in DOMAIN emitted[out.call.id] :
          emitted[out.call.id][i].type # BookingAccepted

\* the stored row new is a fresh copy of the stored row original for owner u:
\* requested, at version 1, with the original's pet, addresses and notes
FreshCopy(new, original, u) ==
    /\ new.status = "requested"
    /\ new.version = 1
    /\ new.ownerID = u
    /\ new.id # original.id
    /\ new.bookingNumber # original.bookingNumber
    /\ new.petSpec = original.petSpec
    /\ new.pickupAddress = original.pickupAddress
    /\ new.dropoffAddress = original.dropoffAddress
    /\ new.notes = original.notes
    /\ toDomainBooking(new).bk.petSpec = toDomainBooking(original).bk.petSpec
    /\ new.runnerID = Nil
    /\ new.pickedUpAt = Nil
    /\ new.deliveredAt = Nil
    /\ new.cancelledAt = Nil
    /\ new.finalPriceCents = Nil

\* C39: a rebooking asked by a user who does not own the original is refused as
\* forbidden and stores nothing; asked by the owner, with a fresh identifier and
\* booking number, it stores a new booking that is a fresh copy of the original;
\* in every case each stored booking, the original among them, stays as it is and
\* no event is emitted by the step, whatever the original's status.
C39_RebookCopiesForOwnerOnly ==
    [][\A id \in BookingIDs, number \in BookingNumbers, u \in UserIDs, b \in BookingIDs :
          ( /\ out = NoOut
            /\ pc["c1"] = "idle"
            /\ b \in DOMAIN store
            /\ IF pc'["c1"] = "idle"
               THEN out'.call = RebookCall(u, b) \/ out'.call.op = "create"
               ELSE pc'["c1"] = "publish" /\ bk'["c1"].id = id
            /\ RebookBooking("c1", id, number, u, b) )
          => /\ \A i \in DOMAIN store : i \in DOMAIN store' /\ store'[i] = store[i]
             /\ emitted' = emitted
             /\ IF store[b].ownerID # u
                THEN /\ out'.err = NewForbiddenError
                     /\ out'.call.op = "rebook"
                     /\ pc'["c1"] = "idle"
                     /\ store' = store
                ELSE IF \/ id \in DOMAIN store
                        \/ \E i \in DOMAIN store : store[i].bookingNumber = number
                THEN /\ out'.err = WrappedError
                     /\ store' = store
                ELSE /\ pc'["c1"] = "publish"
                     /\ DOMAIN store' = DOMAIN store \cup {id}
                     /\ FreshCopy(store'[id], store[b], u)
                     /\ store'[id].bookingNumber = number
                     /\ bk'["c1"] = toDomainBooking(store'[id]).bk]_vars

\* C39 witness: the owner has a fresh copy of a cancelled booking, and another
\* user who asked for one has been refused.
C39_Witness ==
    /\ out.call.op = "rebook"
    /\ out.err.kind = "forbidden"
    /\ out.call.id \in DOMAIN store
    /\ store[out.call.id].status = "cancelled"
    /\ store[out.call.id].ownerID # out.call.actor
    /\ \E id \in DOMAIN store :
          FreshCopy(store[id], store[out.call.id], store[out.call.id].ownerID)

====
